---- MODULE Spec2Model ----
(***************************************************************************)
(* BirdNET Live (real-time-pwa): the main thread (public/js/app.js) and    *)
(* the inference worker (public/js/birdnet-worker.js) as one state         *)
(* machine.  Every action is one run-to-completion step of the JavaScript  *)
(* event loop of its context: a handler from its start to its first await, *)
(* or from the resumption of an await to the next one.                     *)
(*                                                                         *)
(* Specifications                                                          *)
(*   Spec        capture in full (start, stop, every failure of a start)   *)
(*               with the worker answering its predict requests            *)
(*   SpecWorker  the worker in full: predict, area-scores and load_labels  *)
(*               requests of a main thread whose capture is left running   *)
(*   SpecRing    the audio ring buffer with its sample values              *)
(*   SpecPool    the main thread's temporal pool fed with pooled results   *)
(*   SpecFrame   the worker's framing of predict requests of any length    *)
(*               and overlap                                               *)
(*   SpecGeo     start-up with the geolocation watch and the language      *)
(*               select, under fair scheduling of the worker and of the    *)
(*               delivery of its messages                                  *)
(*   SpecWeek    the worker's week of the year, for every weekday of       *)
(*               January 1                                                 *)
(*   SpecWorklet the audio worklet processor feeding the ring              *)
(*   SpecSession capture started and stopped while the label language is   *)
(*               changed, before and after the worker is ready             *)
(*                                                                         *)
(* Numbers.  Scores are levels on a grid: a score of level k stands for    *)
(* the probability p with exp(ALPHA * p) = 2^k, so the frame pool's sum of *)
(* exponentials is exact integer arithmetic and its log-mean is kept as    *)
(* the reduced fraction sum / numFrames.                                   *)
(***************************************************************************)
EXTENDS Integers, Sequences, FiniteSets, TLC

(* ------------------------------------------------------------------ *)
(* Program constants                                                   *)
(* ------------------------------------------------------------------ *)
SAMPLE_RATE == 48000
WINDOW_SAMPLES == 144000
TEMPORAL_POOL_WINDOW == 5

(* ------------------------------------------------------------------ *)
(* Bounds of the model                                                 *)
(* ------------------------------------------------------------------ *)
\* predict requests the main thread posts in one behaviour
MaxPredicts == 2
\* geolocation fixes and label-language changes, together, in one behaviour
MaxSettings == 2
\* record-button clicks / visibility changes in one behaviour
MaxClicks == 3
\* length of the ring in SpecRing (WINDOW_SAMPLES scaled down)
RingCapacity == 4
\* largest chunk the worklet port delivers in SpecRing (2048 scaled down)
MaxChunk == 3
\* samples written in one SpecRing behaviour
MaxWritten == 6
\* pooled results delivered in one SpecPool behaviour
MaxPooled == 6
MaxWindows == 3
ProgressSteps == 2
\* this.bufferSize of the worklet processor, 2048 in the program
bufferSize == 3

\* lines of labels/en_us.txt: one per output class of the acoustic model
LabelFile == <<"sp1", "sp2">>
NumClasses == Len(LabelFile)
\* label languages the user can choose
Langs == {"en_us", "de"}
\* score levels the acoustic model puts out
Levels == <<1, 2>>
\* the score grid: what a sigmoid can put out, 0 and TopLevel its two ends
TopLevel == 4
\* sensitivity settings in tenths: 0, 1.0 and 1.5
Sensitivities == {0, 10, 15}
\* geolocation fixes
Locations == {1, 2}
\* sample values of SpecRing, some outside [-1, 1]
\* captured samples in quarters of full scale: -1.25, 0.25 and 0.75
Samples == {-5, 1, 3}

\* the input gain settings: 1.0 and 2.0
Gains == {1, 2}

(* ------------------------------------------------------------------ *)
(* Optional values: null is the empty sequence                         *)
(* ------------------------------------------------------------------ *)
Null == <<>>
Some(x) == <<x>>
Val(o) == o[1]

Max(a, b) == IF a >= b THEN a ELSE b
Min(a, b) == IF a <= b THEN a ELSE b

RECURSIVE Gcd(_, _)
Gcd(a, b) == IF b = 0 THEN a ELSE Gcd(b, a % b)

\* Math.ceil(a / b) for a >= 0, b > 0
CeilDiv(a, b) == (a + b - 1) \div b

(* ------------------------------------------------------------------ *)
(* Worker: pure parts of handlePredict                                 *)
(* ------------------------------------------------------------------ *)

\* overlapSec in half seconds: Math.min(2.5, Math.max(0, Math.round(raw*2)/2)),
\* raw given in quarter seconds; Math.round rounds a half up
\* a rounding to the half second below
OverlapHalfSecsRoundedDown(overlapQ) == Min(5, Max(0, overlapQ \div 2))

OverlapHalfSecs(overlapQ) == Min(5, Max(0, (overlapQ + 1) \div 2))

\* Math.round(overlapSec * SAMPLE_RATE)
OverlapSamples(overlapQ) == (OverlapHalfSecs(overlapQ) * SAMPLE_RATE) \div 2

HopSamples(overlapQ) == Max(1, WINDOW_SAMPLES - OverlapSamples(overlapQ))

\* a frame count that leaves the last, partly filled frame out
NumFramesWholeOnly(total, hopSamples) ==
  Max(1, (Max(0, total - WINDOW_SAMPLES) \div hopSamples) + 1)

\* a frame count with one frame beyond the end of the input
NumFramesOneMore(total, hopSamples) ==
  Max(1, CeilDiv(Max(0, total - WINDOW_SAMPLES), hopSamples) + 2)

\* handlePredict 329: Math.max(1, Math.ceil(Math.max(0, total - windowSize) / hopSamples) + 1)
NumFrames(total, hopSamples) ==
  Max(1, CeilDiv(Max(0, total - WINDOW_SAMPLES), hopSamples) + 1)

\* pcm.subarray(begin, end) of an array of total elements: both ends are clamped
\* to the array and the view is empty when they cross
Subarray(total, begin, end) ==
  LET b == Min(Max(begin, 0), total)
      e == Min(Max(end, 0), total)
  IN [from |-> b, to |-> Max(b, e)]

\* a framing loop that packs the frames one hop apart
FrameAudioPackedByHop(total, hopSamples, numFrames) ==
  [length |-> numFrames * WINDOW_SAMPLES,
   copies |-> [f \in 1..numFrames |->
                 LET start == (f - 1) * hopSamples
                     srcEnd == Min(start + WINDOW_SAMPLES, total)
                     sub == Subarray(total, start, srcEnd)
                 IN [at |-> (f - 1) * hopSamples, from |-> sub.from, to |-> sub.to]]]

\* framed after the loop: a zeroed buffer of numFrames windows and, per frame, the
\* slice [from, to) of pcm that framed.set copied to offset `at`
FrameAudio(total, hopSamples, numFrames) ==
  [length |-> numFrames * WINDOW_SAMPLES,
   copies |-> [f \in 1..numFrames |->
                 LET start == (f - 1) * hopSamples
                     srcEnd == Min(start + WINDOW_SAMPLES, total)
                     sub == Subarray(total, start, srcEnd)
                 IN [at |-> (f - 1) * WINDOW_SAMPLES, from |-> sub.from, to |-> sub.to]]]

\* parseFloat(data.sensitivity || 1.0), in tenths: 0 is falsy
EffectiveSensitivity(s) == IF s = 0 THEN 10 ELSE s

\* bias = (sensitivity - 1.0) * 5.0, in grid steps of 2.5
BiasSteps(s) == (s - 10) \div 5

\* one value of applySensitivity: clip, logit + bias, sigmoid
SensitivityValue(p, s) == Min(TopLevel, Max(0, Min(TopLevel, Max(0, p)) + BiasSteps(s)))

applySensitivity(list, s) ==
  [f \in 1..Len(list) |-> [i \in 1..Len(list[f]) |-> SensitivityValue(list[f][i], s)]]

\* Math.exp(ALPHA * p) of a score of level p
Exp5(p) == 2^p

\* Math.log(s / n) / ALPHA, kept as the reduced fraction s / n
LogMean(s, n) == <<s \div Gcd(s, n), n \div Gcd(s, n)>>

RECURSIVE SumExp(_, _, _)
SumExp(list, i, f) ==
  IF f = 0 THEN 0 ELSE SumExp(list, i, f - 1) + Exp5(list[f][i])

\* a frame pool that divides by one more than the number of frames
FramePoolOverCount(list) ==
  LET numClasses == IF Len(list) > 0 THEN Len(list[1]) ELSE 0
      numFrames == Len(list)
  IN [i \in 1..numClasses |-> LogMean(SumExp(list, i, numFrames), numFrames + 1)]

\* emitPooled, lines 384-396: the per-class log-mean-exp over the frames
FramePool(list) ==
  LET numClasses == IF Len(list) > 0 THEN Len(list[1]) ELSE 0
      numFrames == Len(list)
  IN [i \in 1..numClasses |-> LogMean(SumExp(list, i, numFrames), numFrames)]

(* ------------------------------------------------------------------ *)
(* State                                                               *)
(* ------------------------------------------------------------------ *)
VARIABLES
  \* worker globals (birdnet-worker.js, section 2)
  birdModel,            \* TRUE once tf.loadLayersModel has resolved
  areaModel,            \* TRUE once tf.loadGraphModel has resolved
  birds,                \* sequence of [geoscore, scientificName, commonNameI18n]
  lastPredictionList,   \* Null or the rows of the last predict
  lastMeans,            \* Null or the frame pool of the last predict
  lastHopSamples,       \* Null or Some(hopSamples)
  lastNumFrames,
  lastWindowSize,
  \* worker event loop
  params,               \* the worker URL's search parameters: [lang]
  initPc,               \* where init() stands
  loadFraction,         \* the part of the acoustic model that tf.loadLayersModel has
                        \* reported to onProgress, in ProgressSteps-ths
  handlers,             \* the suspended async handlers, each at its await
  mailbox,              \* messages posted to the worker, not yet dispatched
  toMain,               \* messages posted by the worker, not yet dispatched
  \* main thread globals (app.js, section 2)
  isListening,
  workerReady,
  geolocation,          \* Null or Some(fix)
  sensitivity,          \* the setting, in tenths
  currentLabelLang,
  recentInferenceSets,
  latestDetections,
  currentStream,        \* Null or Some(id of the start that opened it)
  audioContext,
  workletNode,
  circularBuffer,       \* Null or the ring's samples
  circularWriteIndex,   \* 0-based, as in the source
  inputGain,            \* the gain setting the GainNode is created with
  clock,                \* the worker's clock: getDay() of January 1 (0 = Sunday) and
                        \* Date.now() in half days since January 1, 00:00
  \* the audio worklet processor (audio-processor.js)
  _buffer,              \* this._buffer
  _index,               \* this._index
  port,                 \* chunks posted to the worklet port, not yet delivered
  fed,                  \* history: every sample process() was called with, in order
  \* main thread event loop
  starts,               \* the suspended startListening calls, each at its await
  timers,               \* pending setTimeout(tick) callbacks
  \* history
  nPredict,             \* predict requests posted so far (the newest request's id)
  nFix,                 \* geolocation fixes delivered so far
  nLang,                \* label-language changes so far
  nClick,               \* start/stop inputs so far
  nArea,                \* area-scores requests posted so far (the newest request's id)
  written,              \* SpecRing: the samples written to the current ring
  windowed,             \* SpecRing: Null or the last snapshot taken
  filledBy,             \* Null or the pooled message of the predict that last
                        \* wrote the inference cache
  pushed,               \* every pooled result the main thread has received
  \* the main thread's Float32Arrays, each known by its allocation number
  allocated,            \* arrays allocated so far
  ringBuffer,           \* the array circularBuffer refers to, 0 when it is null
  detached              \* the arrays whose storage postMessage has transferred away

workerGlobals == <<birdModel, areaModel, birds, lastPredictionList, lastMeans,
                   lastHopSamples, lastNumFrames, lastWindowSize>>
cacheVars == <<lastPredictionList, lastMeans, lastHopSamples, lastNumFrames,
               lastWindowSize>>
workerLoop == <<params, initPc, loadFraction, handlers, mailbox, toMain>>
mainGlobals == <<isListening, workerReady, geolocation, sensitivity, currentLabelLang,
                 recentInferenceSets, latestDetections, currentStream, audioContext,
                 workletNode>>
ringVars == <<circularBuffer, circularWriteIndex>>
mainLoop == <<starts, timers>>
counters == <<nPredict, nFix, nLang, nClick, nArea>>
history == <<written, windowed, filledBy, pushed>>
heap == <<allocated, ringBuffer, detached>>
worklet == <<_buffer, _index, port, fed>>
vars == <<workerGlobals, workerLoop, mainGlobals, ringVars, inputGain, clock, worklet, heap, mainLoop, counters,
          history>>

(* ------------------------------------------------------------------ *)
(* Worker: messages it builds                                          *)
(* ------------------------------------------------------------------ *)

\* the opaque acoustic model on the numFrames windows of request id, whose audio
\* no other request carries: class i of frame f gets the level that the digit
\* (f - 1) * NumClasses + i - 1 of id selects
AcousticModel(id, numFrames) ==
  [f \in 1..numFrames |->
     [i \in 1..NumClasses |->
        Levels[((id \div (Len(Levels) ^ ((f - 1) * NumClasses + i - 1))) % Len(Levels)) + 1]]]

\* the opaque geo model: the occurrence scores of a fix, none of them the default 1
AreaScores(loc) == [i \in 1..NumClasses |-> 10 * loc + i]

\* emitSegments can read birds[i] for every class of the rows
BirdsCover(list) == \A f \in 1..Len(list) : Len(list[f]) <= Len(birds)

\* one entry of a segment's preds or of the pooled list
Detection(bs, i, conf) ==
  [index |-> i - 1, confidence |-> conf, geoscore |-> bs[i].geoscore,
   scientificName |-> bs[i].scientificName, commonNameI18n |-> bs[i].commonNameI18n]

\* emitSegments: start and end in half seconds
SegmentsMsg(bs, predictionList, hopSamples, windowSize, by, id) ==
  [message |-> "segments", by |-> by, id |-> id,
   segments |->
     [f \in 1..Len(predictionList) |->
        [start |-> ((f - 1) * hopSamples * 2) \div SAMPLE_RATE,
         end |-> ((f - 1) * hopSamples * 2) \div SAMPLE_RATE
                   + (windowSize * 2) \div SAMPLE_RATE,
         preds |-> [i \in 1..Len(predictionList[f]) |->
                      Detection(bs, i, predictionList[f][i])]]]]

\* the pooled list built from per-class means (emitPooled 398-407, handleAreaScores 453-461)
PooledMsg(bs, means, by, id) ==
  [message |-> "pooled", by |-> by, id |-> id,
   pooled |-> [i \in 1..Len(means) |-> Detection(bs, i, means[i])]]

SpeciesListMsg(bs) ==
  [message |-> "species_list", by |-> "get_species_list", id |-> 0,
   list |-> [i \in 1..Len(bs) |->
               [index |-> i - 1, scientificName |-> bs[i].scientificName,
                commonNameI18n |-> bs[i].commonNameI18n, geoscore |-> bs[i].geoscore]]]

PlainMsg(message, by, id) == [message |-> message, by |-> by, id |-> id]

\* a merged table whose geoscores all start again at the default
NewBirdsDefaultGeoscore(old, lang) ==
  [i \in 1..Len(LabelFile) |->
     [geoscore |-> 1,
      scientificName |-> LabelFile[i],
      commonNameI18n |-> <<LabelFile[i], lang>>]]

\* a merged table whose kept geoscores are those of the next class
NewBirdsShifted(old, lang) ==
  [i \in 1..Len(LabelFile) |->
     [geoscore |-> IF Len(old) = Len(LabelFile) THEN old[(i % Len(old)) + 1].geoscore ELSE 1,
      scientificName |-> LabelFile[i],
      commonNameI18n |-> <<LabelFile[i], lang>>]]

\* loadLabels 259-277: the merged table, geoscores kept when the class count is unchanged
NewBirds(old, lang) ==
  [i \in 1..Len(LabelFile) |->
     [geoscore |-> IF Len(old) = Len(LabelFile) THEN old[i].geoscore ELSE 1,
      scientificName |-> LabelFile[i],
      commonNameI18n |-> <<LabelFile[i], lang>>]]

\* handleAreaScores 442-444: birds[i].geoscore = areaScores[i]
WithGeoscores(bs, scores) ==
  [i \in 1..Len(bs) |-> [bs[i] EXCEPT !.geoscore = scores[i]]]

\* postMessage, once for each message of ms
Post(ms) == toMain' = toMain \o ms

(* ------------------------------------------------------------------ *)
(* Worker: init()                                                      *)
(* ------------------------------------------------------------------ *)

\* await tf.setBackend('webgl') resolves; tf.loadLayersModel is called
InitBackendReady ==
  /\ initPc = "setBackend"
  /\ initPc' = "loadModel"
  /\ UNCHANGED loadFraction
  /\ UNCHANGED <<workerGlobals, params, handlers, mailbox, toMain, mainGlobals,
                 ringVars, inputGain, clock, worklet, heap, mainLoop, counters, history>>

\* a progress report that counts the fraction on a scale of 100
LoadProgressOfHundred(fraction) == (fraction * 100) \div ProgressSteps

\* (p * 70) | 0 for the fraction p = fraction / ProgressSteps
LoadProgress(fraction) == (fraction * 70) \div ProgressSteps

\* tf.loadLayersModel reports a larger part loaded (210): onProgress posts it
InitModelProgress(fraction) ==
  /\ initPc = "loadModel"
  /\ fraction > loadFraction
  /\ loadFraction' = fraction
  /\ Post(<<PlainMsg("load_model", "init", LoadProgress(fraction))>>)
  /\ UNCHANGED <<workerGlobals, params, initPc, handlers, mailbox, mainGlobals,
                 ringVars, inputGain, clock, worklet, heap, mainLoop, counters, history>>

\* the acoustic model is loaded: warmup, then tf.loadGraphModel is called
InitModelLoaded ==
  /\ initPc = "loadModel"
  /\ initPc' = "loadGeo"
  /\ UNCHANGED loadFraction
  /\ birdModel' = TRUE
  /\ Post(<<PlainMsg("warmup", "init", 70), PlainMsg("load_geomodel", "init", 90)>>)
  /\ UNCHANGED <<areaModel, birds, cacheVars, params, handlers, mailbox, mainGlobals,
                 ringVars, inputGain, clock, worklet, heap, mainLoop, counters, history>>

\* the geo model is loaded, or its load failed (caught); loadLabels() runs to its
\* first await
InitGeoLoaded(ok) ==
  /\ initPc = "loadGeo"
  /\ initPc' = "labels"
  /\ UNCHANGED loadFraction
  /\ areaModel' = ok
  /\ Post(<<PlainMsg("load_labels", "init", 95)>>)
  /\ handlers' = handlers \cup
       {[kind |-> "labels", id |-> 0, pc |-> "fetchBase", lang |-> params.lang,
         from |-> "init"]}
  /\ UNCHANGED <<birdModel, birds, cacheVars, params, mailbox, mainGlobals, ringVars, inputGain, clock, worklet, heap,
                 mainLoop, counters, history>>

(* ------------------------------------------------------------------ *)
(* Worker: loadLabels, for init() and for a load_labels message        *)
(* ------------------------------------------------------------------ *)

\* labels/en_us.txt has arrived; the localized file is fetched
LabelsFetchedBase(h) ==
  /\ h \in handlers /\ h.kind = "labels" /\ h.pc = "fetchBase"
  /\ handlers' = (handlers \ {h}) \cup {[h EXCEPT !.pc = "fetchLang"]}
  /\ UNCHANGED <<workerGlobals, params, initPc, loadFraction, mailbox, toMain, mainGlobals, ringVars, inputGain, clock, worklet, heap,
                 mainLoop, counters, history>>

\* the localized file has arrived, or its fetch threw (the default list is used);
\* the table is swapped and the caller goes on
LabelsFetchedLang(h, ok) ==
  /\ h \in handlers /\ h.kind = "labels" /\ h.pc = "fetchLang"
  /\ handlers' = handlers \ {h}
  /\ birds' = NewBirds(birds, IF ok THEN h.lang ELSE "en_us")
  /\ UNCHANGED loadFraction
  /\ IF h.from = "init"
       THEN /\ initPc' = "done"
            /\ Post(<<PlainMsg("loaded", "init", 100)>>)
       ELSE /\ initPc' = initPc
            /\ Post(<<[message |-> "labels_loaded", by |-> "load_labels", id |-> h.id,
                       lang |-> h.lang]>>)
  /\ UNCHANGED <<birdModel, areaModel, cacheVars, params, mailbox, mainGlobals, ringVars, inputGain, clock, worklet, heap,
                 mainLoop, counters, history>>

(* ------------------------------------------------------------------ *)
(* Worker: onmessage                                                   *)
(* ------------------------------------------------------------------ *)

\* handlePredict 318-341: framing, the model call, up to await resTensor.array()
PredictBegin(data) ==
  IF ~birdModel
    THEN handlers' = handlers
    ELSE LET hopSamples == HopSamples(data.overlapQ)
             numFrames == NumFrames(data.total, hopSamples)
         IN handlers' = handlers \cup
              {[kind |-> "predict", id |-> data.id, pc |-> "array",
                overlapSecRaw |-> data.overlapQ, total |-> data.total,
                hopSamples |-> hopSamples, numFrames |-> numFrames,
                framed |-> FrameAudio(data.total, hopSamples, numFrames),
                sensitivity |-> data.sensitivity,
                res |-> AcousticModel(data.id, numFrames)]}

\* Math.round(n / d), d > 0: the nearest integer, a tie towards +Infinity
Round(n, d) == (2 * n + d) \div (2 * d)

\* 430-431: the day of January that startOfYear is set to (1 is January 1, 0 is
\* December 31): getDate() + (1 - (getDay() % 7))
AlignedStart(getDay) == 1 + (1 - (getDay % 7))

\* 432: Math.round((Date.now() - startOfYear.getTime()) / 604800000) + 1, a week
\* being 14 half days
WeekOfYear(getDay, now) == Round(now - 2 * (AlignedStart(getDay) - 1), 14) + 1

\* handleAreaScores 428-438 past its guard, up to the await: the suspended call
AreaCall(data) ==
  [kind |-> "area", id |-> data.id, pc |-> "data", loc |-> data.loc,
   startOfYear |-> AlignedStart(clock.getDay),
   week |-> WeekOfYear(clock.getDay, clock.now)]

\* a handleAreaScores that does not look whether there is a geo model
AreaBeginUnguarded(data) ==
  handlers' = handlers \cup {AreaCall(data)}

\* handleAreaScores 428-438: up to await areaModel.predict(input).data()
AreaBegin(data) ==
  IF ~areaModel
    THEN handlers' = handlers
    ELSE handlers' = handlers \cup {AreaCall(data)}

\* loadLabels(data.lang) up to its first await
LabelsBegin(data) ==
  handlers' = handlers \cup
    {[kind |-> "labels", id |-> data.id, pc |-> "fetchBase", lang |-> data.lang,
      from |-> "msg"]}

\* the worker's event loop dispatches the next message to onmessage
WorkerReceive ==
  /\ mailbox # <<>>
  /\ mailbox' = Tail(mailbox)
  /\ LET data == Head(mailbox)
     IN CASE data.message = "predict" ->
               PredictBegin(data) /\ UNCHANGED toMain
          [] data.message = "area-scores" ->
               AreaBegin(data) /\ UNCHANGED toMain
          [] data.message = "load_labels" ->
               LabelsBegin(data) /\ UNCHANGED toMain
          [] data.message = "get_species_list" ->
               Post(<<SpeciesListMsg(birds)>>) /\ UNCHANGED handlers
  /\ UNCHANGED <<workerGlobals, params, initPc, loadFraction, mainGlobals, ringVars, inputGain, clock, worklet, heap, mainLoop,
                 counters, history>>

\* a cache write that leaves the frame count as it was
CacheWriteKeepsFrames(predictionList, hopSamples, numFrames) ==
  /\ lastPredictionList' = predictionList
  /\ lastHopSamples' = Some(hopSamples)
  /\ lastNumFrames' = lastNumFrames
  /\ lastWindowSize' = WINDOW_SAMPLES

\* handlePredict 352-356: "4. Cache results"
CacheWrite(predictionList, hopSamples, numFrames) ==
  /\ lastPredictionList' = predictionList
  /\ lastHopSamples' = Some(hopSamples)
  /\ lastNumFrames' = numFrames
  /\ lastWindowSize' = WINDOW_SAMPLES

\* handlePredict 343-362: the model output has arrived
PredictResume(h) ==
  /\ h \in handlers /\ h.kind = "predict"
  /\ handlers' = handlers \ {h}
  /\ LET s == EffectiveSensitivity(h.sensitivity)
         predictionList == IF s # 10 THEN applySensitivity(h.res, s) ELSE h.res
     IN /\ CacheWrite(predictionList, h.hopSamples, h.numFrames)
        /\ IF BirdsCover(predictionList)
             THEN /\ lastMeans' = FramePool(predictionList)
                  /\ Post(<<SegmentsMsg(birds, predictionList, h.hopSamples,
                                        WINDOW_SAMPLES, "predict", h.id),
                            PooledMsg(birds, lastMeans', "predict", h.id)>>)
                  /\ filledBy' = Some(PooledMsg(birds, lastMeans', "predict", h.id))
             ELSE \* birds[i] is undefined: emitSegments throws
                  /\ UNCHANGED <<lastMeans, toMain, filledBy>>
  /\ UNCHANGED <<birdModel, areaModel, birds, params, initPc, loadFraction, mailbox, mainGlobals,
                 ringVars, inputGain, clock, worklet, heap, mainLoop, counters, written, windowed,
                 pushed>>

\* a replay that leaves the segment view out
AreaMessagesPooledOnly(bs, id) ==
  <<PlainMsg("area-scores", "area-scores", id)>>
  \o (IF lastMeans # Null THEN <<PooledMsg(bs, lastMeans, "area-scores", id)>> ELSE <<>>)

\* a replay whose pooled view is sent whether or not a pool is cached
AreaMessagesUnguarded(bs, id) ==
  <<PlainMsg("area-scores", "area-scores", id)>>
  \o (IF lastPredictionList # Null /\ lastHopSamples # Null
        THEN <<SegmentsMsg(bs, lastPredictionList, Val(lastHopSamples), lastWindowSize,
                           "area-scores", id)>>
        ELSE <<>>)
  \o <<PooledMsg(bs, lastMeans, "area-scores", id)>>

\* a replay that multiplies the geoscore into the pooled confidence
AreaMessagesFused(bs, id) ==
  <<PlainMsg("area-scores", "area-scores", id)>>
  \o (IF lastPredictionList # Null /\ lastHopSamples # Null
        THEN <<SegmentsMsg(bs, lastPredictionList, Val(lastHopSamples), lastWindowSize,
                           "area-scores", id)>>
        ELSE <<>>)
  \o (IF lastMeans # Null
        THEN <<PooledMsg(bs, [i \in 1..Len(lastMeans) |->
                                LogMean(lastMeans[i][1] * bs[i].geoscore, lastMeans[i][2])],
                         "area-scores", id)>>
        ELSE <<>>)

\* what handleAreaScores 446-462 posts, bs being the updated table
AreaMessages(bs, id) ==
  <<PlainMsg("area-scores", "area-scores", id)>>
  \o (IF lastPredictionList # Null /\ lastHopSamples # Null
        THEN <<SegmentsMsg(bs, lastPredictionList, Val(lastHopSamples), lastWindowSize,
                           "area-scores", id)>>
        ELSE <<>>)
  \o (IF lastMeans # Null THEN <<PooledMsg(bs, lastMeans, "area-scores", id)>> ELSE <<>>)

\* a handleAreaScores whose scores go to the table it saw at its start: they are
\* lost when loadLabels is about to replace that table
AreaResumeOnOldTable(h) ==
  /\ h \in handlers /\ h.kind = "area"
  /\ handlers' = handlers \ {h}
  /\ birds' = IF \E l \in handlers : l.kind = "labels" /\ l.pc = "fetchLang"
                THEN birds ELSE WithGeoscores(birds, AreaScores(h.loc))
  /\ IF lastPredictionList = Null \/ BirdsCover(lastPredictionList)
       THEN Post(AreaMessages(birds', h.id))
       ELSE Post(<<PlainMsg("area-scores", "area-scores", h.id)>>)
  /\ UNCHANGED <<birdModel, areaModel, cacheVars, params, initPc, loadFraction, mailbox,
                 mainGlobals, ringVars, inputGain, clock, worklet, heap, mainLoop,
                 counters, history>>

\* handleAreaScores 439-462: the geo scores have arrived
AreaResume(h) ==
  /\ h \in handlers /\ h.kind = "area"
  /\ handlers' = handlers \ {h}
  /\ birds' = WithGeoscores(birds, AreaScores(h.loc))
  /\ IF lastPredictionList = Null \/ BirdsCover(lastPredictionList)
       THEN Post(AreaMessages(birds', h.id))
       ELSE Post(<<PlainMsg("area-scores", "area-scores", h.id)>>)
  /\ UNCHANGED <<birdModel, areaModel, cacheVars, params, initPc, loadFraction, mailbox, mainGlobals,
                 ringVars, inputGain, clock, worklet, heap, mainLoop, counters, history>>

(* ------------------------------------------------------------------ *)
(* Main thread: temporal pooling (app.js 1354-1398)                    *)
(* ------------------------------------------------------------------ *)

\* confidences are fractions <<s, n>>
FracLess(a, b) == a[1] * b[2] < b[1] * a[2]
FracAdd(a, b) == <<a[1] * b[2] + b[1] * a[2], a[2] * b[2]>>
FracReduce(a) == LogMean(a[1], a[2])

\* Math.min(1 - eps, Math.max(eps, c)): the two ends of the grid
ClipConfidence(c) ==
  IF FracLess(c, <<Exp5(0), 1>>) THEN <<Exp5(0), 1>>
  ELSE IF FracLess(<<Exp5(TopLevel), 1>>, c) THEN <<Exp5(TopLevel), 1>>
  ELSE c

RECURSIVE Flatten(_)
Flatten(sets) == IF sets = <<>> THEN <<>> ELSE Head(sets) \o Flatten(Tail(sets))

RECURSIVE KeysInOrder(_, _)
\* the keys of byIndex in insertion order
KeysInOrder(dets, seen) ==
  IF dets = <<>> THEN <<>>
  ELSE IF Head(dets).index \in seen THEN KeysInOrder(Tail(dets), seen)
  ELSE <<Head(dets).index>> \o KeysInOrder(Tail(dets), seen \cup {Head(dets).index})

WithIndex(dets, idx) == SelectSeq(dets, LAMBDA d : d.index = idx)

RECURSIVE SumClipped(_)
SumClipped(dets) ==
  IF dets = <<>> THEN <<0, 1>>
  ELSE FracAdd(ClipConfidence(Head(dets).confidence), SumClipped(Tail(dets)))

\* the log-mean-exp of the samples' logits, back as a probability: on the grid the
\* mean of the clipped samples
PooledConfidence(samples) ==
  LET sum == SumClipped(samples)
  IN FracReduce(<<sum[1], sum[2] * Len(samples)>>)

RECURSIVE InsertDesc(_, _)
\* d put behind every element that is not smaller: a stable descending sort
InsertDesc(sorted, d) ==
  IF sorted = <<>> THEN <<d>>
  ELSE IF FracLess(Head(sorted).confidence, d.confidence) THEN <<d>> \o sorted
  ELSE <<Head(sorted)>> \o InsertDesc(Tail(sorted), d)

\* a sort that leaves the list as it is
SortKeepsOrder(dets) == dets

RECURSIVE SortDesc(_)
SortDesc(dets) ==
  IF dets = <<>> THEN <<>>
  ELSE InsertDesc(SortDesc(SubSeq(dets, 1, Len(dets) - 1)), dets[Len(dets)])

\* a pooler without the short cut for a single set
PoolWithoutShortCut(sets) ==
  IF Len(sets) = 0 THEN <<>>
  ELSE LET flat == Flatten(sets)
           keys == KeysInOrder(flat, {})
           pooled == [k \in 1..Len(keys) |->
                        LET entry == WithIndex(flat, keys[k])
                        IN [entry[1] EXCEPT !.confidence = PooledConfidence(entry)]]
       IN SortDesc(pooled)

\* a pooler that emits the classes of the oldest retained set only
PoolClassesOfOldest(sets) ==
  IF Len(sets) = 0 THEN <<>>
  ELSE IF Len(sets) = 1 THEN sets[1]
  ELSE LET flat == Flatten(sets)
           keys == KeysInOrder(sets[1], {})
           pooled == [k \in 1..Len(keys) |->
                        LET entry == WithIndex(flat, keys[k])
                        IN [entry[1] EXCEPT !.confidence = PooledConfidence(entry)]]
       IN SortDesc(pooled)

computeTemporalPooledDetections(sets) ==
  IF Len(sets) = 0 THEN <<>>
  ELSE IF Len(sets) = 1 THEN sets[1]
  ELSE LET flat == Flatten(sets)
           keys == KeysInOrder(flat, {})
           pooled == [k \in 1..Len(keys) |->
                        LET entry == WithIndex(flat, keys[k])
                        IN [entry[1] EXCEPT !.confidence = PooledConfidence(entry)]]
       IN SortDesc(pooled)

(* ------------------------------------------------------------------ *)
(* Main thread: what its handlers do to the state                      *)
(* ------------------------------------------------------------------ *)

\* Math.max(-1, Math.min(1, x)) on samples in quarters of full scale
Clamp(x) == Max(-4, Min(4, x))

\* a window read from slot 0 on, wherever the write cursor is
WindowFromSlotZero(buf, idx) ==
  [i \in 1..Len(buf) |-> Clamp(buf[i])]

\* a window that is a plain copy of the ring
WindowUnclamped(buf, idx) ==
  [i \in 1..Len(buf) |-> buf[((idx + i - 1) % Len(buf)) + 1]]

\* a window read from the newest sample on
WindowFromNewest(buf, idx) ==
  [i \in 1..Len(buf) |-> Clamp(buf[((idx + Len(buf) + i - 2) % Len(buf)) + 1])]

\* getCurrentWindow 598-608 on a ring buf with write cursor idx
getCurrentWindow(buf, idx) ==
  [i \in 1..Len(buf) |-> Clamp(buf[((idx + i - 1) % Len(buf)) + 1])]

\* the predict request of a tick (578-587) on the window it took
PredictRequest(id, windowBuffer) ==
  [message |-> "predict", id |-> id, pcmAudio |-> windowBuffer, total |-> WINDOW_SAMPLES,
   overlapQ |-> 6, sensitivity |-> sensitivity]

\* sendAreaScores 1286-1305
AreaRequest(id, fix) ==
  [message |-> "area-scores", id |-> id, loc |-> fix]

\* a tick guard that also waits for every earlier request to be answered
TickRunsWhenIdle(listening) ==
  /\ listening /\ workerReady /\ circularBuffer # Null
  /\ \A k \in DOMAIN mailbox : mailbox[k].message # "predict"
  /\ \A h \in handlers : h.kind # "predict"

\* a tick guard that does not look at isListening
TickRunsWhenStopped(listening) == workerReady /\ circularBuffer # Null

\* the guard of tick (568)
TickRuns(listening) == listening /\ workerReady /\ circularBuffer # Null

\* a post without a transfer list: the window is copied to the worker
TransferredNothing(request) == <<>>

\* the transfer list of the post of a predict request (587): [windowed.buffer]
Transferred(request) == <<request.pcmAudio>>

\* tick 567-591, isListening being `listening` when it runs: a request is posted and
\* the next tick is scheduled
TickBody(listening, pendingTimers) ==
  IF TickRuns(listening)
    THEN /\ nPredict < MaxPredicts
         /\ nPredict' = nPredict + 1
         /\ allocated' = allocated + 1
         /\ mailbox' = Append(mailbox, PredictRequest(nPredict + 1, allocated'))
         /\ LET list == Transferred(mailbox'[Len(mailbox')])
            IN detached' = detached \cup {list[k] : k \in DOMAIN list}
         /\ UNCHANGED ringBuffer
         /\ timers' = pendingTimers + 1
    ELSE /\ UNCHANGED <<nPredict, mailbox, heap>>
         /\ timers' = pendingTimers

\* stopListening 455-499
StopListening ==
  /\ isListening' = FALSE
  /\ currentStream' = Null
  /\ workletNode' = Null
  /\ audioContext' = Null

(* ------------------------------------------------------------------ *)
(* Main thread: birdnetWorker.onmessage (app.js 322-380)               *)
(* ------------------------------------------------------------------ *)

\* a pooled handler that removes the newest entry (pop) where the window is full
OnPooledEvictsNewest(data) ==
  LET grown == Append(recentInferenceSets, data.pooled)
      kept == IF Len(grown) > TEMPORAL_POOL_WINDOW
                THEN SubSeq(grown, 1, TEMPORAL_POOL_WINDOW) ELSE grown
  IN /\ recentInferenceSets' = kept
     /\ latestDetections' = computeTemporalPooledDetections(kept)
     /\ pushed' = Append(pushed, data.pooled)

\* case "pooled" 352-369
OnPooled(data) ==
  LET grown == Append(recentInferenceSets, data.pooled)
      kept == IF Len(grown) > TEMPORAL_POOL_WINDOW THEN Tail(grown) ELSE grown
  IN /\ recentInferenceSets' = kept
     /\ latestDetections' = computeTemporalPooledDetections(kept)
     /\ pushed' = Append(pushed, data.pooled)

\* a 'loaded' case that leaves the fix to the geolocation watch
OnLoadedWithoutFix ==
  /\ workerReady' = TRUE
  /\ UNCHANGED <<mailbox, nArea>>

\* birdnetWorker.onmessage 339-350, case "loaded": if (geolocation) sendAreaScores()
OnLoaded ==
  /\ workerReady' = TRUE
  /\ IF geolocation # Null
       THEN /\ mailbox' = Append(mailbox, AreaRequest(nArea + 1, Val(geolocation)))
            /\ nArea' = nArea + 1
       ELSE UNCHANGED <<mailbox, nArea>>

MainReceive ==
  /\ toMain # <<>>
  /\ toMain' = Tail(toMain)
  /\ LET data == Head(toMain)
     IN CASE data.message = "loaded" ->
               /\ OnLoaded
               /\ UNCHANGED <<recentInferenceSets, latestDetections, pushed>>
          [] data.message = "labels_loaded" ->
               /\ mailbox' = Append(mailbox, [message |-> "get_species_list"])
               /\ UNCHANGED <<workerReady, nArea, recentInferenceSets, latestDetections,
                              pushed>>
          [] data.message = "pooled" ->
               /\ OnPooled(data)
               /\ UNCHANGED <<workerReady, mailbox, nArea>>
          [] OTHER ->
               UNCHANGED <<workerReady, mailbox, nArea, recentInferenceSets,
                           latestDetections, pushed>>
  /\ UNCHANGED <<workerGlobals, params, initPc, loadFraction, handlers, isListening, geolocation,
                 sensitivity, currentLabelLang, currentStream, audioContext, workletNode,
                 ringVars, inputGain, clock, worklet, heap, mainLoop, nPredict, nFix, nLang, nClick, written, windowed,
                 filledBy>>

(* ------------------------------------------------------------------ *)
(* Main thread: the record button and the page lifecycle               *)
(* ------------------------------------------------------------------ *)

\* a click on the enabled record button while not listening: startListening 414-434,
\* up to await requestWakeLock()
ClickStart ==
  /\ nClick < MaxClicks
  /\ workerReady
  /\ ~isListening
  /\ nClick' = nClick + 1
  /\ isListening' = TRUE
  /\ starts' = starts \cup {[id |-> nClick + 1, pc |-> "wakeLock", ctx |-> 0]}
  /\ UNCHANGED <<workerGlobals, workerLoop, workerReady, geolocation, sensitivity,
                 currentLabelLang, recentInferenceSets, latestDetections, currentStream,
                 audioContext, workletNode, ringVars, inputGain, clock, worklet, heap, timers, nPredict, nFix, nLang,
                 nArea, history>>

\* a click while listening, the page hidden, or pagehide: stopListening()
ClickStop ==
  /\ nClick < MaxClicks
  /\ isListening
  /\ nClick' = nClick + 1
  /\ StopListening
  /\ UNCHANGED <<workerGlobals, workerLoop, workerReady, geolocation, sensitivity,
                 currentLabelLang, recentInferenceSets, latestDetections, ringVars, inputGain, clock, worklet, heap,
                 mainLoop, nPredict, nFix, nLang, nArea, history>>

(* ------------------------------------------------------------------ *)
(* Main thread: startListening and setupAudioGraphFromStream resumed   *)
(* ------------------------------------------------------------------ *)

\* requestWakeLock() is through; getUserMedia is called
StartWakeLockDone(st) ==
  /\ st \in starts /\ st.pc = "wakeLock"
  /\ starts' = (starts \ {st}) \cup {[st EXCEPT !.pc = "getUserMedia"]}
  /\ UNCHANGED <<workerGlobals, workerLoop, mainGlobals, ringVars, inputGain, clock, worklet, heap, timers, counters, history>>

\* a catch that leaves the capture state as the failed start set it
StartFailsKeepsListening(st) ==
  /\ starts' = starts \ {st}
  /\ UNCHANGED <<isListening, currentStream, workletNode, audioContext, ringVars, inputGain, clock, worklet, heap,
                 timers, history>>

\* the catch of startListening 448-452
StartFails(st) ==
  /\ starts' = starts \ {st}
  /\ StopListening
  /\ UNCHANGED <<ringVars, inputGain, clock, worklet, heap, timers, history>>

\* setupAudioGraphFromStream 508-539 on the context ctx: the nodes, the ring, and
\* (with an audio worklet) the call of addModule
SetupGraph(st, ctx, hasWorklet) ==
  /\ circularBuffer' = [i \in 1..RingCapacity |-> 0]
  /\ circularWriteIndex' = 0
  /\ allocated' = allocated + 1
  /\ ringBuffer' = allocated'
  /\ written' = <<>>
  /\ UNCHANGED <<windowed, filledBy, pushed, detached, inputGain, clock, worklet>>
  /\ starts' = IF hasWorklet
                 THEN (starts \ {st}) \cup {[st EXCEPT !.pc = "addModule", !.ctx = ctx.id]}
                 ELSE starts \ {st}
  /\ UNCHANGED timers

\* getUserMedia resolved: the stream is kept and the audio graph set up, as far as
\* await audioContext.resume() when the new context is suspended
StartGotStream(st, suspended, hasWorklet) ==
  /\ st \in starts /\ st.pc = "getUserMedia"
  /\ currentStream' = Some(st.id)
  /\ audioContext' = Some([id |-> st.id, module |-> FALSE])
  /\ IF suspended
       THEN /\ starts' = (starts \ {st}) \cup {[st EXCEPT !.pc = "resume"]}
            /\ UNCHANGED <<ringVars, inputGain, clock, worklet, heap, timers, history>>
       ELSE SetupGraph(st, Val(audioContext'), hasWorklet)
  /\ UNCHANGED <<workerGlobals, workerLoop, isListening, workerReady, geolocation,
                 sensitivity, currentLabelLang, recentInferenceSets, latestDetections,
                 workletNode, counters>>

\* getUserMedia rejected
StartMicFailed(st) ==
  /\ st \in starts /\ st.pc = "getUserMedia"
  /\ StartFails(st)
  /\ UNCHANGED <<workerGlobals, workerLoop, workerReady, geolocation, sensitivity,
                 currentLabelLang, recentInferenceSets, latestDetections, counters>>

\* audioContext.resume() resolved; audioContext.createMediaStreamSource throws a
\* TypeError when a stop has set audioContext to null meanwhile
StartResumed(st, hasWorklet) ==
  /\ st \in starts /\ st.pc = "resume"
  /\ IF audioContext = Null
       THEN StartFails(st)
       ELSE /\ SetupGraph(st, Val(audioContext), hasWorklet)
            /\ UNCHANGED <<isListening, currentStream, audioContext, workletNode>>
  /\ UNCHANGED <<workerGlobals, workerLoop, workerReady, geolocation, sensitivity,
                 currentLabelLang, recentInferenceSets, latestDetections, counters>>

\* addModule resolved (541-563): the processor is registered in the context it was
\* added to; new AudioWorkletNode throws (caught, 557) when audioContext is null or
\* has no such processor; otherwise the node is kept and startInferenceLoop runs
\* its first tick
StartModuleAdded(st) ==
  /\ st \in starts /\ st.pc = "addModule"
  /\ starts' = starts \ {st}
  /\ LET ctx == IF audioContext # Null /\ Val(audioContext).id = st.ctx
                  THEN Some([Val(audioContext) EXCEPT !.module = TRUE])
                  ELSE audioContext
     IN /\ audioContext' = ctx
        /\ IF ctx # Null /\ Val(ctx).module
             THEN /\ workletNode' = Some(st.id)
                  /\ TickBody(isListening, timers)
             ELSE UNCHANGED <<workletNode, timers, nPredict, mailbox, heap>>
  /\ UNCHANGED <<workerGlobals, params, initPc, loadFraction, handlers, toMain, isListening,
                 workerReady, geolocation, sensitivity, currentLabelLang,
                 recentInferenceSets, latestDetections, currentStream, ringVars, inputGain, clock, worklet, nFix,
                 nLang, nClick, nArea, history>>

\* addModule rejected: caught at 557, no inference loop
StartModuleFailed(st) ==
  /\ st \in starts /\ st.pc = "addModule"
  /\ starts' = starts \ {st}
  /\ UNCHANGED <<workerGlobals, workerLoop, mainGlobals, ringVars, inputGain, clock, worklet, heap, timers, counters, history>>

\* a setTimeout(tick) callback fires
Tick ==
  /\ timers > 0
  /\ TickBody(isListening, timers - 1)
  /\ UNCHANGED <<workerGlobals, params, initPc, loadFraction, handlers, toMain, mainGlobals, ringVars, inputGain, clock, worklet,
                 starts, nFix, nLang, nClick, nArea, history>>

(* ------------------------------------------------------------------ *)
(* Main thread: geolocation and the label language                     *)
(* ------------------------------------------------------------------ *)

\* watchPosition's success callback 1261-1271: the fix is kept and sent
GeoFix(loc) ==
  /\ nFix + nLang < MaxSettings
  /\ nFix' = nFix + 1
  /\ geolocation' = Some(loc)
  /\ mailbox' = Append(mailbox, AreaRequest(nArea + 1, loc))
  /\ nArea' = nArea + 1
  /\ UNCHANGED <<workerGlobals, params, initPc, loadFraction, handlers, toMain, isListening,
                 workerReady, sensitivity, currentLabelLang, recentInferenceSets,
                 latestDetections, currentStream, audioContext, workletNode, ringVars, inputGain, clock, worklet, heap,
                 mainLoop, nPredict, nLang, nClick, history>>

\* initWorker 300-320 with a worker running: it is terminated and a new one started
RestartWorker(lang) ==
  /\ birdModel' = FALSE
  /\ areaModel' = FALSE
  /\ birds' = <<>>
  /\ lastPredictionList' = Null
  /\ lastMeans' = Null
  /\ lastHopSamples' = Null
  /\ lastNumFrames' = 0
  /\ lastWindowSize' = WINDOW_SAMPLES
  /\ params' = [lang |-> lang]
  /\ initPc' = "setBackend"
  /\ loadFraction' = 0
  /\ handlers' = {}
  /\ mailbox' = <<>>
  /\ toMain' = <<>>
  /\ workerReady' = FALSE

\* a change handler that starts a new worker whatever the state of the old one
LangChangeRestarts(lang) ==
  /\ nFix + nLang < MaxSettings
  /\ lang # currentLabelLang
  /\ nLang' = nLang + 1
  /\ currentLabelLang' = lang
  /\ latestDetections' = <<>>
  /\ RestartWorker(lang)
  /\ UNCHANGED <<isListening, geolocation, sensitivity, recentInferenceSets,
                 currentStream, audioContext, workletNode, ringVars, inputGain, clock,
                 worklet, heap, mainLoop, nPredict, nFix, nClick, nArea, history>>

\* the change handler of the label-language select 980-992
LangChange(lang) ==
  /\ nFix + nLang < MaxSettings
  /\ lang # currentLabelLang
  /\ nLang' = nLang + 1
  /\ currentLabelLang' = lang
  /\ latestDetections' = <<>>
  /\ IF workerReady
       THEN /\ mailbox' = Append(mailbox, [message |-> "load_labels", id |-> nLang + 1,
                                           lang |-> lang])
            /\ UNCHANGED <<workerGlobals, params, initPc, loadFraction, handlers, toMain,
                           workerReady>>
       ELSE RestartWorker(lang)
  /\ UNCHANGED <<isListening, geolocation, sensitivity, recentInferenceSets,
                 currentStream, audioContext, workletNode, ringVars, inputGain, clock, worklet, heap, mainLoop, nPredict,
                 nFix, nClick, nArea, history>>

(* ------------------------------------------------------------------ *)
(* The ring buffer with its samples (SpecRing)                         *)
(* ------------------------------------------------------------------ *)

RECURSIVE WriteChunk(_, _, _)
\* workletNode.port.onmessage 544-550: [buf, idx] after the samples of input
WriteChunk(buf, idx, input) ==
  IF input = <<>> THEN [buf |-> buf, idx |-> idx]
  ELSE WriteChunk([buf EXCEPT ![idx + 1] = Head(input)], (idx + 1) % Len(buf),
                  Tail(input))

Chunks == UNION {[1..n -> Samples] : n \in 1..MaxChunk}

\* setupAudioGraphFromStream 527-529: a new ring
RingSetup ==
  /\ circularBuffer = Null
  /\ circularBuffer' = [i \in 1..RingCapacity |-> 0]
  /\ circularWriteIndex' = 0
  /\ allocated' = allocated + 1
  /\ ringBuffer' = allocated'
  /\ written' = <<>>
  /\ UNCHANGED <<workerGlobals, workerLoop, mainGlobals, mainLoop, counters, windowed,
                 filledBy, pushed, detached, inputGain, clock, worklet>>

\* the GainNode (511-512, 521) on a chunk of captured samples
Amplified(input) == [i \in DOMAIN input |-> inputGain * input[i]]

\* the worklet port delivers a chunk that has come through the GainNode (545-551)
OnAudio(input) ==
  /\ circularBuffer # Null
  /\ Len(written) + Len(input) <= MaxWritten
  /\ LET w == WriteChunk(circularBuffer, circularWriteIndex, Amplified(input))
     IN /\ circularBuffer' = w.buf
        /\ circularWriteIndex' = w.idx
  /\ written' = written \o Amplified(input)
  /\ UNCHANGED <<workerGlobals, workerLoop, mainGlobals, mainLoop, counters, windowed,
                 filledBy, pushed, heap, inputGain, clock, worklet>>

\* a flush that comes one sample early
FlushOneEarly(st, x) ==
  LET buf == [st.buf EXCEPT ![st.idx + 1] = x]
      idx == st.idx + 1
  IN IF idx >= bufferSize - 1
       THEN [buf |-> buf, idx |-> 0, out |-> Append(st.out, buf)]
       ELSE [buf |-> buf, idx |-> idx, out |-> st.out]

\* audio-processor.js 26-32, one turn of the loop: the sample is stored, and a full
\* buffer is posted (postMessage copies it) and the index goes back to 0
StoreSample(st, x) ==
  LET buf == [st.buf EXCEPT ![st.idx + 1] = x]
      idx == st.idx + 1
  IN IF idx >= bufferSize
       THEN [buf |-> buf, idx |-> 0, out |-> Append(st.out, buf)]
       ELSE [buf |-> buf, idx |-> idx, out |-> st.out]

RECURSIVE ProcessLoop(_, _)
\* audio-processor.js 25-33: the loop over channelData
ProcessLoop(st, channelData) ==
  IF channelData = <<>> THEN st
  ELSE ProcessLoop(StoreSample(st, Head(channelData)), Tail(channelData))

\* AudioProcessor.process 16-37 on one render quantum that has come through the
\* GainNode
Process(quantum) ==
  /\ circularBuffer # Null
  /\ Len(fed) + Len(quantum) <= MaxWritten
  /\ LET channelData == Amplified(quantum)
         st == ProcessLoop([buf |-> _buffer, idx |-> _index, out |-> <<>>], channelData)
     IN /\ _buffer' = st.buf
        /\ _index' = st.idx
        /\ port' = port \o st.out
        /\ fed' = fed \o channelData
  /\ UNCHANGED <<workerGlobals, workerLoop, mainGlobals, ringVars, inputGain, clock, heap,
                 mainLoop, counters, history>>

\* workletNode.port.onmessage 544-550 on the next chunk the processor posted
PortDeliver ==
  /\ port # <<>>
  /\ circularBuffer # Null
  /\ port' = Tail(port)
  /\ LET w == WriteChunk(circularBuffer, circularWriteIndex, Head(port))
     IN /\ circularBuffer' = w.buf
        /\ circularWriteIndex' = w.idx
  /\ written' = written \o Head(port)
  /\ UNCHANGED <<workerGlobals, workerLoop, mainGlobals, mainLoop, counters, windowed,
                 filledBy, pushed, heap, inputGain, clock, _buffer, _index, fed>>

\* a snapshot that reads through the ring's own cursor and leaves it one slot on
SnapshotMovesCursor ==
  /\ circularBuffer # Null
  /\ allocated < MaxWindows + 1
  /\ allocated' = allocated + 1
  /\ windowed' = Some([window |-> getCurrentWindow(circularBuffer, circularWriteIndex),
                       at |-> Len(written), buffer |-> allocated'])
  /\ circularWriteIndex' = (circularWriteIndex + 1) % Len(circularBuffer)
  /\ UNCHANGED <<workerGlobals, workerLoop, mainGlobals, circularBuffer, ringBuffer,
                 detached, mainLoop, counters, written, filledBy, pushed, inputGain, clock, worklet>>

\* a tick takes its snapshot (570, 598-608): windowed keeps the new array, what it
\* holds and the number of samples written before it
Snapshot ==
  /\ circularBuffer # Null
  /\ allocated < MaxWindows + 1
  /\ allocated' = allocated + 1
  /\ windowed' = Some([window |-> getCurrentWindow(circularBuffer, circularWriteIndex),
                       at |-> Len(written), buffer |-> allocated'])
  /\ UNCHANGED <<workerGlobals, workerLoop, mainGlobals, ringVars, inputGain, clock, worklet, ringBuffer, detached,
                 mainLoop, counters, written, filledBy, pushed>>

(* ------------------------------------------------------------------ *)
(* Specifications                                                      *)
(* ------------------------------------------------------------------ *)

\* the page has loaded: initWorker() has started the worker, nothing has run yet,
\* and the worker's clock stands at c
Start(c) ==
  /\ clock = c
  /\ _buffer = [i \in 1..bufferSize |-> 0]
  /\ _index = 0
  /\ port = <<>>
  /\ fed = <<>>
  /\ birdModel = FALSE
  /\ areaModel = FALSE
  /\ birds = <<>>
  /\ lastPredictionList = Null
  /\ lastMeans = Null
  /\ lastHopSamples = Null
  /\ lastNumFrames = 0
  /\ lastWindowSize = WINDOW_SAMPLES
  /\ params = [lang |-> "en_us"]
  /\ initPc = "setBackend"
  /\ loadFraction = 0
  /\ handlers = {}
  /\ mailbox = <<>>
  /\ toMain = <<>>
  /\ isListening = FALSE
  /\ workerReady = FALSE
  /\ geolocation = Null
  /\ sensitivity \in Sensitivities
  /\ currentLabelLang = "en_us"
  /\ recentInferenceSets = <<>>
  /\ latestDetections = <<>>
  /\ currentStream = Null
  /\ audioContext = Null
  /\ workletNode = Null
  /\ circularBuffer = Null
  /\ circularWriteIndex = 0
  /\ inputGain \in Gains
  /\ starts = {}
  /\ timers = 0
  /\ nPredict = 0
  /\ nFix = 0
  /\ nLang = 0
  /\ nClick = 0
  /\ nArea = 0
  /\ written = <<>>
  /\ windowed = Null
  /\ allocated = 0
  /\ ringBuffer = 0
  /\ detached = {}
  /\ filledBy = Null
  /\ pushed = <<>>

\* noon of a January 1 that is a Monday
NewYearNoon == [getDay |-> 1, now |-> 1]

Init == Start(NewYearNoon)

\* the worker's steps where no area-scores request is ever posted and the model
\* load reports no progress
WorkerPredictNext ==
  \/ InitBackendReady
  \/ InitModelLoaded
  \/ \E ok \in BOOLEAN : InitGeoLoaded(ok)
  \/ \E h \in handlers : LabelsFetchedBase(h)
  \/ \E h \in handlers, ok \in BOOLEAN : LabelsFetchedLang(h, ok)
  \/ WorkerReceive
  \/ \E h \in handlers : PredictResume(h)

\* the worker's steps
WorkerNext ==
  \/ WorkerPredictNext
  \/ \E h \in handlers : AreaResume(h)

\* starting and stopping capture, with everything that can go wrong
CaptureNext ==
  \/ ClickStart
  \/ ClickStop
  \/ \E st \in starts : StartWakeLockDone(st)
  \/ \E st \in starts, suspended \in BOOLEAN, hasWorklet \in BOOLEAN :
       StartGotStream(st, suspended, hasWorklet)
  \/ \E st \in starts : StartMicFailed(st)
  \/ \E st \in starts, hasWorklet \in BOOLEAN : StartResumed(st, hasWorklet)
  \/ \E st \in starts : StartModuleAdded(st)
  \/ \E st \in starts : StartModuleFailed(st)
  \/ Tick

\* capture started and left running, the microphone, a running audio context
\* and the worklet module all granted
CaptureGranted ==
  \/ ClickStart
  \/ \E st \in starts : StartWakeLockDone(st)
  \/ \E st \in starts : StartGotStream(st, FALSE, TRUE)
  \/ \E st \in starts : StartModuleAdded(st)
  \/ Tick

\* the geolocation watch, and the label language changed with the worker ready
SettingsNext ==
  \/ \E loc \in Locations : GeoFix(loc)
  \/ \E lang \in Langs : workerReady /\ LangChange(lang)

\* the scheduler: capture in full and the worker, no geolocation fix arriving
Next ==
  \/ WorkerPredictNext
  \/ \E fraction \in 1..ProgressSteps : InitModelProgress(fraction)
  \/ MainReceive
  \/ CaptureNext

Spec == Init /\ [][Next]_vars

\* the worker in full with the main thread as its client
NextWorker ==
  \/ WorkerNext
  \/ MainReceive
  \/ CaptureGranted
  \/ SettingsNext

\* the stored sensitivity preference is 1.5, the stored gain 1.0
InitRaised == Init /\ sensitivity = 15 /\ inputGain = 1

SpecWorker == InitRaised /\ [][NextWorker]_vars

\* the worker loading and answering area-scores and load_labels requests
GeoWorkerNext ==
  \/ InitBackendReady
  \/ InitModelLoaded
  \/ \E ok \in BOOLEAN : InitGeoLoaded(ok)
  \/ \E h \in handlers : LabelsFetchedBase(h)
  \/ \E h \in handlers, ok \in BOOLEAN : LabelsFetchedLang(h, ok)
  \/ WorkerReceive
  \/ \E h \in handlers : AreaResume(h)

\* start-up with the geolocation watch and the language select, no capture
GeoNext ==
  \/ GeoWorkerNext
  \/ MainReceive
  \/ \E loc \in Locations : GeoFix(loc)
  \/ \E lang \in Langs : LangChange(lang)

\* the worker thread runs while it has something to do, and the main thread's
\* event loop delivers every message the worker posted
GeoFairness == WF_vars(GeoWorkerNext) /\ WF_vars(MainReceive)

SpecGeo == InitRaised /\ [][GeoNext]_vars /\ GeoFairness

\* the weekdays January 1 falls on, Sunday 0 to Saturday 6
Weekdays == 0..6

\* moments of the year in half days since January 1, 00:00: the first days, the
\* turns of the first weeks, and the last day of a leap year
Moments == {0, 1, 2, 6, 7, 8, 13, 14, 15, 21, 731}

Clocks == [getDay : Weekdays, now : Moments]

\* start-up with the geolocation watch, on any day of a year of any kind
WeekNext ==
  \/ GeoWorkerNext
  \/ MainReceive
  \/ \E loc \in Locations : GeoFix(loc)

InitWeek == \E c \in Clocks : Start(c) /\ sensitivity = 15 /\ inputGain = 1

SpecWeek == InitWeek /\ [][WeekNext]_vars

\* pooled results as the worker can post them, and some that lack a class
PoolInputs ==
  LET det(i, level) ==
        [index |-> i, confidence |-> <<Exp5(level), 1>>, geoscore |-> 1,
         scientificName |-> LabelFile[i + 1],
         commonNameI18n |-> <<LabelFile[i + 1], "en_us">>]
  IN {<<det(0, 1), det(1, 3)>>, <<det(0, 3), det(1, 1)>>, <<det(1, 2)>>, <<det(0, 2)>>,
      <<>>}

\* a pooled message is delivered to the main thread
PooledArrives(pooled) ==
  /\ Len(pushed) < MaxPooled
  /\ OnPooled([message |-> "pooled", pooled |-> pooled])
  /\ UNCHANGED <<workerGlobals, workerLoop, isListening, workerReady, geolocation,
                 sensitivity, currentLabelLang, currentStream, audioContext, workletNode,
                 ringVars, inputGain, clock, worklet, heap, mainLoop, counters, written, windowed, filledBy>>

PoolNext == \E pooled \in PoolInputs : PooledArrives(pooled)

\* the temporal pool fed with pooled results
SpecPool == Init /\ [][PoolNext]_vars

\* overlapSec of a predict message in quarter seconds: below the range, in it on
\* and between the half seconds, and above it
OverlapInputs == {-3, 0, 3, 6, 13}

\* pcmAudio.length of a predict message: none, short, one window, more than one
AudioLengths == {0, 1, WINDOW_SAMPLES, WINDOW_SAMPLES + 1, 288000, 300000}

\* a predict message with this audio and this overlap reaches the worker
PredictArrives(total, overlapQ) ==
  /\ nPredict < MaxPredicts
  /\ nPredict' = nPredict + 1
  /\ allocated' = allocated + 1
  /\ mailbox' = Append(mailbox, [PredictRequest(nPredict', allocated')
                                   EXCEPT !.total = total, !.overlapQ = overlapQ])
  /\ detached' = detached \cup {allocated'}
  /\ UNCHANGED <<workerGlobals, params, initPc, loadFraction, handlers, toMain, mainGlobals, ringVars, inputGain, clock, worklet,
                 ringBuffer, mainLoop, nFix, nLang, nClick, nArea, history>>

FrameNext ==
  \/ WorkerPredictNext
  \/ \E total \in AudioLengths, overlapQ \in OverlapInputs : PredictArrives(total, overlapQ)

\* the worker fed with predict messages of any length and overlap
SpecFrame == InitRaised /\ [][FrameNext]_vars

RingNext ==
  \/ RingSetup
  \/ \E input \in Chunks : OnAudio(input)
  \/ Snapshot

SpecRing == Init /\ [][RingNext]_vars

\* capture started and stopped, the label language changed at any moment
SessionNext ==
  \/ WorkerPredictNext
  \/ MainReceive
  \/ CaptureGranted
  \/ ClickStop
  \/ \E lang \in Langs : LangChange(lang)

SpecSession == InitRaised /\ [][SessionNext]_vars

\* render quanta of any length up to MaxChunk
Quanta == Chunks

\* the worklet processor feeding the ring through its port
WorkletNext ==
  \/ RingSetup
  \/ \E quantum \in Quanta : Process(quantum)
  \/ PortDeliver

SpecWorklet == Init /\ [][WorkletNext]_vars

(* ------------------------------------------------------------------ *)
(* The ring buffer                                                     *)
(* ------------------------------------------------------------------ *)

\* the last RingCapacity of the first n samples written, oldest first, each
\* clamped to [-1, 1]
LastWritten(n) ==
  [i \in 1..RingCapacity |-> Clamp(written[n - RingCapacity + i])]

\* C1: a snapshot taken after n >= capacity samples were written, in chunks of
\* any size, is the last `capacity` samples written, oldest to newest, each
\* clamped to [-1, 1]
C1_SnapshotIsLastWritten ==
  (windowed # Null /\ Val(windowed).at >= RingCapacity)
    => Val(windowed).window = LastWritten(Val(windowed).at)

\* a snapshot taken after a chunk wrapped around the end of the ring
C1_SnapshotAfterWrap ==
  /\ windowed # Null
  /\ Val(windowed).at > RingCapacity
  /\ Val(windowed).at % RingCapacity # 0

(* ------------------------------------------------------------------ *)
(* The worker's sequential queue                                       *)
(* ------------------------------------------------------------------ *)

\* the handlePredict calls that have begun and not completed
PredictsInProgress == {h \in handlers : h.kind = "predict"}

\* C2: the worker never has two predict handlers in progress at once
C2_OnePredictInProgress == Cardinality(PredictsInProgress) <= 1

\* C3: predict responses are emitted in the order the requests were posted: the
\* handlePredict that completes is the earliest request still in progress
C3_ResponsesInRequestOrder ==
  [][\A h \in PredictsInProgress :
       h \notin handlers' => \A g \in PredictsInProgress : h.id <= g.id]_vars

(* ------------------------------------------------------------------ *)
(* The inference loop                                                  *)
(* ------------------------------------------------------------------ *)

\* the predict requests posted and not yet answered
Outstanding ==
  Cardinality({k \in DOMAIN mailbox : mailbox[k].message = "predict"})
    + Cardinality(PredictsInProgress)

\* C4: while listening with the worker ready, a tick posts exactly one predict
\* request, however many are unanswered, and schedules the next tick; a request
\* leaves the queue only by being begun
C4_EveryTickPosts ==
  [][/\ (Tick /\ isListening /\ workerReady)
          => /\ mailbox' = Append(mailbox, PredictRequest(nPredict + 1, allocated + 1))
             /\ nPredict' = nPredict + 1
             /\ timers' = timers
     /\ mailbox' # mailbox
          => \/ /\ Len(mailbox') = Len(mailbox) + 1
                /\ SubSeq(mailbox', 1, Len(mailbox)) = mailbox
             \/ /\ mailbox' = Tail(mailbox)
                /\ Head(mailbox).message = "predict"
                     => \E h \in handlers' \ handlers :
                          h.kind = "predict" /\ h.id = Head(mailbox).id]_vars

\* a tick has posted a request while every earlier one was unanswered
C4_AllOutstanding ==
  /\ isListening
  /\ nPredict = MaxPredicts
  /\ Outstanding = MaxPredicts

\* C5: a pooled response delivered while not listening is neither pushed into
\* the temporal pool nor rendered
C5_PooledDiscardedWhenStopped ==
  [][(/\ ~isListening
      /\ toMain # <<>>
      /\ toMain' = Tail(toMain)
      /\ Head(toMain).message = "pooled")
       => UNCHANGED <<recentInferenceSets, latestDetections>>]_vars

\* C6: while not listening no predict request is posted, and a tick that fires
\* posts nothing and schedules no further tick
C6_StoppedPostsNothing ==
  [][~isListening
       => /\ nPredict' = nPredict
          /\ \A k \in DOMAIN mailbox' :
               mailbox'[k].message = "predict"
                 => \E j \in DOMAIN mailbox : mailbox[j] = mailbox'[k]
          /\ Tick => timers' = timers - 1]_vars

\* capture was stopped after requests had been posted, and the tick left
\* pending has fired
C6_LateTickFired ==
  /\ ~isListening
  /\ nPredict >= 1
  /\ timers = 0

(* ------------------------------------------------------------------ *)
(* Geo replay and the inference cache                                  *)
(* ------------------------------------------------------------------ *)

\* the messages a step has posted to the main thread
Emitted == SubSeq(toMain', Len(toMain) + 1, Len(toMain'))

\* the step completes the handleAreaScores call h
AreaCompletes(h) == h.kind = "area" /\ h \notin handlers'

\* C7: an area-scores request handled with a non-null cache emits 'area-scores',
\* then 'segments' and 'pooled' built from the cached predictions with the new
\* geoscores, and calls no acoustic model
C7_ReplayFromCache ==
  [][\A h \in handlers :
       (AreaCompletes(h) /\ lastPredictionList # Null)
         => /\ Len(Emitted) = 3
            /\ Emitted[1].message = "area-scores"
            /\ Emitted[2].message = "segments"
            /\ Len(Emitted[2].segments) = Len(lastPredictionList)
            /\ \A f \in 1..Len(lastPredictionList), i \in 1..NumClasses :
                 /\ Emitted[2].segments[f].preds[i].confidence = lastPredictionList[f][i]
                 /\ Emitted[2].segments[f].preds[i].geoscore = AreaScores(h.loc)[i]
            /\ Emitted[3].message = "pooled"
            /\ Len(Emitted[3].pooled) = NumClasses
            /\ \A i \in 1..NumClasses :
                 /\ Emitted[3].pooled[i].confidence = lastMeans[i]
                 /\ Emitted[3].pooled[i].geoscore = AreaScores(h.loc)[i]
            /\ handlers' = handlers \ {h}
            /\ UNCHANGED cacheVars]_vars

\* a replayed pooled message follows a replayed segments message
C7_Replayed ==
  \E k \in 2..Len(toMain) :
    /\ toMain[k].message = "pooled" /\ toMain[k].by = "area-scores"
    /\ toMain[k - 1].message = "segments" /\ toMain[k - 1].by = "area-scores"

\* C8: with lastPredictionList null an area-scores request updates the geoscores
\* and replays nothing: 'area-scores' is all it emits
C8_NoReplayWithoutCache ==
  [][\A h \in handlers :
       (AreaCompletes(h) /\ lastPredictionList = Null)
         => /\ Len(Emitted) = 1
            /\ Emitted[1].message = "area-scores"
            /\ Len(birds') = Len(birds)
            /\ \A i \in 1..Len(birds) : birds'[i].geoscore = AreaScores(h.loc)[i]
            /\ UNCHANGED cacheVars]_vars

\* geoscores were updated before any predict completed
C8_GeoscoresBeforeFirstPredict ==
  /\ lastPredictionList = Null
  /\ birds # <<>>
  /\ \E loc \in Locations :
       \A i \in 1..Len(birds) : birds[i].geoscore = AreaScores(loc)[i]

\* the pooled message a completing handleAreaScores call has replayed
Replayed == toMain'[Len(toMain')]

\* C9 as stated: the replayed pooled message is the pooled message of the predict
\* that filled the cache but for its geoscore fields
C9_ReplayDiffersInGeoscoreOnly ==
  [][\A h \in handlers :
       (AreaCompletes(h) /\ filledBy # Null)
         => /\ Replayed.message = "pooled"
            /\ Len(Replayed.pooled) = Len(Val(filledBy).pooled)
            /\ \A i \in 1..Len(Replayed.pooled) :
                 Replayed.pooled[i] =
                   [Val(filledBy).pooled[i] EXCEPT
                      !.geoscore = Replayed.pooled[i].geoscore]]_vars

\* C9 amended: the replayed pooled message has the confidences of the pooled
\* message of the predict that filled the cache, and differs from it only in
\* the geoscore fields and in the localized names of the label table
C9_ReplayKeepsConfidence ==
  [][\A h \in handlers :
       (AreaCompletes(h) /\ filledBy # Null)
         => /\ Replayed.message = "pooled"
            /\ Len(Replayed.pooled) = Len(Val(filledBy).pooled)
            /\ \A i \in 1..Len(Replayed.pooled) :
                 /\ Replayed.pooled[i].confidence = Val(filledBy).pooled[i].confidence
                 /\ Replayed.pooled[i] =
                      [Val(filledBy).pooled[i] EXCEPT
                         !.geoscore = Replayed.pooled[i].geoscore,
                         !.commonNameI18n = Replayed.pooled[i].commonNameI18n]]_vars

\* a replayed pooled message waits for the main thread, the labels having been
\* reloaded in another language since the predict that filled the cache
C9_ReplayedAfterReload ==
  /\ filledBy # Null
  /\ \E k \in DOMAIN toMain :
       /\ toMain[k].message = "pooled" /\ toMain[k].by = "area-scores"
       /\ toMain[k].pooled[1].confidence = Val(filledBy).pooled[1].confidence
       /\ toMain[k].pooled[1].commonNameI18n # Val(filledBy).pooled[1].commonNameI18n

\* the cache as the worker starts with it
CacheInitial ==
  /\ lastPredictionList = Null
  /\ lastMeans = Null
  /\ lastHopSamples = Null
  /\ lastNumFrames = 0
  /\ lastWindowSize = WINDOW_SAMPLES

\* the cache as the completed predict of request id leaves it
CacheOf(id) ==
  LET s == EffectiveSensitivity(sensitivity)
      out == AcousticModel(id, NumFrames(WINDOW_SAMPLES, HopSamples(6)))
  IN /\ lastPredictionList = (IF s # 10 THEN applySensitivity(out, s) ELSE out)
     /\ lastNumFrames = Len(lastPredictionList)
     /\ lastMeans = FramePool(lastPredictionList)
     /\ lastHopSamples = Some(HopSamples(6))
     /\ lastWindowSize = WINDOW_SAMPLES

\* C10: between handler steps the cache fields are all initial or all those of
\* one completed predict
C10_CacheCoherent == CacheInitial \/ \E id \in 1..nPredict : CacheOf(id)

\* the cache holds a completed predict while another predict is in progress
C10_CacheFilledMidRun ==
  /\ lastPredictionList # Null
  /\ PredictsInProgress # {}

(* ------------------------------------------------------------------ *)
(* Who writes what in the worker                                       *)
(* ------------------------------------------------------------------ *)

\* the step completes the handlePredict call h
PredictCompletes(h) == h.kind = "predict" /\ h \notin handlers'

\* the geoscores of a label table
Geoscores(bs) == [i \in 1..Len(bs) |-> bs[i].geoscore]

\* a label table without its geoscores
Names(bs) ==
  [i \in 1..Len(bs) |-> [scientificName |-> bs[i].scientificName,
                         commonNameI18n |-> bs[i].commonNameI18n]]

\* C11: handling area-scores changes only geoscores and leaves the inference
\* cache unchanged; handling predict changes only the cache and leaves the
\* label table unchanged; no other step changes a geoscore (a table loaded
\* over an empty one starts at the default 1) or the cache
C11_MutationDiscipline ==
  [][/\ \A h \in handlers :
          AreaCompletes(h) => (UNCHANGED cacheVars /\ Names(birds') = Names(birds))
     /\ \A h \in handlers : PredictCompletes(h) => birds' = birds
     /\ (\A h \in handlers : ~AreaCompletes(h))
          => Geoscores(birds') =
               (IF birds = <<>> THEN [i \in 1..Len(birds') |-> 1] ELSE Geoscores(birds))
     /\ (\A h \in handlers : ~PredictCompletes(h)) => UNCHANGED cacheVars]_vars

\* a predict has filled the cache, and the labels were reloaded in German over
\* geoscores that an area-scores request had set
C11_AllThreeHandled ==
  /\ lastPredictionList # Null
  /\ birds # <<>>
  /\ birds[1].commonNameI18n[2] = "de"
  /\ birds[1].geoscore # 1

(* ------------------------------------------------------------------ *)
(* The temporal pool                                                   *)
(* ------------------------------------------------------------------ *)

\* the last min(n, k) entries of a sequence, in its order
LastOf(seq, k) == SubSeq(seq, Len(seq) - Min(Len(seq), k) + 1, Len(seq))

\* C12: the temporal pool never holds more than TEMPORAL_POOL_WINDOW results, and
\* holds the last min(n, TEMPORAL_POOL_WINDOW) of the n results pushed, in the
\* order they were pushed
C12_PoolIsBoundedFifo ==
  /\ Len(recentInferenceSets) <= TEMPORAL_POOL_WINDOW
  /\ recentInferenceSets = LastOf(pushed, TEMPORAL_POOL_WINDOW)

\* a push has evicted a result that differs from the one pushed
C12_Evicted ==
  /\ Len(pushed) > TEMPORAL_POOL_WINDOW
  /\ pushed[1] # pushed[Len(pushed)]

\* C13: with exactly one retained set the pooler's output is that set, unchanged
\* and in its order; with none it is the empty list
C13_SingleSetUnchanged ==
  /\ computeTemporalPooledDetections(<<>>) = <<>>
  /\ pushed = <<>> => latestDetections = <<>>
  /\ Len(pushed) = 1 => latestDetections = pushed[1]

\* the one retained set lists a weaker class before a stronger one
C13_OneUnsortedSet ==
  /\ Len(pushed) = 1
  /\ Len(latestDetections) = 2
  /\ FracLess(latestDetections[1].confidence, latestDetections[2].confidence)

\* the class indices of a list of detections
Indices(dets) == {dets[k].index : k \in DOMAIN dets}

\* the retained sets that report class idx
SetsWith(idx) ==
  {c \in DOMAIN recentInferenceSets : idx \in Indices(recentInferenceSets[c])}

RECURSIVE SampleSum(_, _)
\* the sum of the clipped confidences that the sets numbered in cs report for idx
SampleSum(cs, idx) ==
  IF cs = {} THEN <<0, 1>>
  ELSE LET c == CHOOSE x \in cs : TRUE
           d == CHOOSE k \in DOMAIN recentInferenceSets[c] :
                  recentInferenceSets[c][k].index = idx
       IN FracAdd(ClipConfidence(recentInferenceSets[c][d].confidence),
                  SampleSum(cs \ {c}, idx))

\* C14: the classes of the pooler's output are the union of the classes of the
\* retained sets, each once; a class is pooled over the sets that report it and
\* over no other
C14_SparseUnion ==
  recentInferenceSets # <<>>
    => /\ Indices(latestDetections) =
            UNION {Indices(recentInferenceSets[c]) : c \in DOMAIN recentInferenceSets}
       /\ Cardinality(Indices(latestDetections)) = Len(latestDetections)
       /\ Len(recentInferenceSets) >= 2
            => \A k \in DOMAIN latestDetections :
                 LET idx == latestDetections[k].index
                     sum == SampleSum(SetsWith(idx), idx)
                 IN latestDetections[k].confidence =
                      FracReduce(<<sum[1], sum[2] * Cardinality(SetsWith(idx))>>)

\* several sets are retained; one class is reported by the newest of them only,
\* another by some and not by all
C14_ClassesDiffer ==
  /\ Len(recentInferenceSets) >= 3
  /\ \E idx \in Indices(latestDetections) :
       SetsWith(idx) = {Len(recentInferenceSets)}
  /\ \E idx \in Indices(latestDetections) :
       /\ Cardinality(SetsWith(idx)) >= 2
       /\ SetsWith(idx) # DOMAIN recentInferenceSets

\* a list of detections in descending order of confidence
Descending(dets) ==
  \A k \in 1..(Len(dets) - 1) : ~FracLess(dets[k].confidence, dets[k + 1].confidence)

\* C15 as stated: the pooler's output is in descending order of confidence
\* whatever was retained
C15_AlwaysDescending == Descending(latestDetections)

\* C15 amended: with two or more retained sets the pooler's output is in
\* descending order of confidence
C15_DescendingWhenPooled ==
  Len(recentInferenceSets) >= 2 => Descending(latestDetections)

\* two sets are pooled and the stronger class is the one with the higher index
C15_Reordered ==
  /\ Len(recentInferenceSets) >= 2
  /\ Len(latestDetections) = 2
  /\ latestDetections[1].index > latestDetections[2].index
  /\ FracLess(latestDetections[2].confidence, latestDetections[1].confidence)

\* the predict handlers that have framed their audio
Framing == {h \in handlers : h.kind = "predict"}

\* the overlap of handler h in half seconds, read back from its hop
OverlapUsed(h) == ((WINDOW_SAMPLES - h.hopSamples) * 2) \div SAMPLE_RATE

\* C16: the overlap used for framing is the half second nearest to the requested
\* overlap, a tie going up, brought into 0 .. 2.5 s, and the hop is the window less
\* that overlap and at least one sample
C16_OverlapQuantized ==
  \A h \in Framing :
    LET q == h.overlapSecRaw
        o == OverlapUsed(h)
    IN /\ o \in 0..5
       /\ h.hopSamples = Max(1, WINDOW_SAMPLES - (o * SAMPLE_RATE) \div 2)
       /\ (WINDOW_SAMPLES - h.hopSamples) * 2 = o * SAMPLE_RATE
       /\ q <= 0 => o = 0
       /\ q >= 10 => o = 5
       /\ (0 < q /\ q < 10) => (2 * o - q) \in {0, 1}

\* handlers are framing with an overlap that was rounded up from a tie, one that
\* was raised to 0 and one that was cut to 2.5 s
C16_TieAndClamp ==
  /\ \E h \in Framing : h.overlapSecRaw = 3 /\ OverlapUsed(h) = 2
  /\ \E h \in Framing : h.overlapSecRaw < 0 \/ h.overlapSecRaw > 10

\* C17: the number of frames is max(1, ceil(max(0, total - window) / hop) + 1): the
\* least count, one or more, whose frames reach the end of the input; an empty or
\* short input has one frame
C17_NumFrames ==
  \A h \in Framing :
    LET n == h.numFrames
        excess == Max(0, h.total - WINDOW_SAMPLES)
    IN /\ n >= 1
       /\ (n - 1) * h.hopSamples >= excess
       /\ n > 1 => (n - 2) * h.hopSamples < excess
       /\ h.total <= WINDOW_SAMPLES => n = 1

\* a handler is framing an input whose last frame is partly filled, another an
\* input shorter than a window
C17_ShortAndRagged ==
  /\ \E h \in Framing :
       h.numFrames >= 3 /\ (h.total - WINDOW_SAMPLES) % h.hopSamples # 0
  /\ \E h \in Framing : h.total < WINDOW_SAMPLES

\* the element of pcm that element i of framed holds, Null where framed is zero:
\* the copies are made in frame order, a later one over an earlier one
SourceOf(framed, i) ==
  LET over == {f \in DOMAIN framed.copies :
                 /\ framed.copies[f].at <= i
                 /\ i < framed.copies[f].at + (framed.copies[f].to - framed.copies[f].from)}
  IN IF over = {} THEN Null
     ELSE LET f == CHOOSE x \in over : \A y \in over : y <= x
          IN Some(framed.copies[f].from + (i - framed.copies[f].at))

\* C18: frame f of framed is the window-long slot at f * window; it holds the
\* input from f * hop to the end of the window or of the input, then zeros; no
\* copy reads past the input or writes outside its slot
C18_FrameLayout ==
  \A h \in Framing :
    /\ h.framed.length = h.numFrames * WINDOW_SAMPLES
    /\ \A f \in 0..(h.numFrames - 1) :
         LET copy == h.framed.copies[f + 1]
             held == Min(f * h.hopSamples + WINDOW_SAMPLES, h.total) - f * h.hopSamples
         IN /\ held >= 0
            /\ copy.from >= 0 /\ copy.to <= h.total
            /\ copy.at >= f * WINDOW_SAMPLES
            /\ copy.at + (copy.to - copy.from) <= (f + 1) * WINDOW_SAMPLES
            /\ \A j \in {0, held - 1, held, WINDOW_SAMPLES - 1} \cap 0..(WINDOW_SAMPLES - 1) :
                 SourceOf(h.framed, f * WINDOW_SAMPLES + j) =
                   (IF j < held THEN Some(f * h.hopSamples + j) ELSE Null)

\* a handler has framed overlapping frames, the last of them padded with zeros
C18_OverlappingAndPadded ==
  \E h \in Framing :
    /\ h.numFrames >= 3
    /\ h.hopSamples < WINDOW_SAMPLES
    /\ (h.numFrames - 1) * h.hopSamples + WINDOW_SAMPLES > h.total

\* C19: taking a snapshot leaves every element of circularBuffer and the write
\* cursor as they were, and the window it returns is an array that did not exist
\* before and is not the ring
C19_SnapshotLeavesRing ==
  [][windowed' # windowed
       => /\ circularBuffer' = circularBuffer
          /\ circularWriteIndex' = circularWriteIndex
          /\ ringBuffer' = ringBuffer
          /\ Val(windowed').buffer \notin 1..allocated
          /\ Val(windowed').buffer # ringBuffer']_vars

\* a second snapshot has been taken of a ring that has wrapped, its cursor
\* between two slots' ends
C19_SnapshotOfWrappedRing ==
  /\ windowed # Null
  /\ Val(windowed).buffer >= 3
  /\ Val(windowed).at > RingCapacity
  /\ circularWriteIndex # 0

\* the arrays carried by the predict requests the worker has yet to take
InMailbox == {mailbox[k].pcmAudio : k \in {j \in DOMAIN mailbox : mailbox[j].message = "predict"}}

\* C20: every predict request carries an array of its own, whose storage the post
\* moved to the worker: no array went with two requests, none is the ring, and the
\* main thread holds none of them any more
C20_WindowTransferred ==
  /\ Cardinality(detached) = nPredict
  /\ ringBuffer \notin detached
  /\ InMailbox \subseteq detached
  /\ Cardinality(InMailbox) =
       Cardinality({j \in DOMAIN mailbox : mailbox[j].message = "predict"})

\* two windows have gone to the worker, one of them before the ring in use was
\* allocated
C20_TwoWindowsTwoRings ==
  /\ Cardinality(detached) = 2
  /\ Cardinality(InMailbox) = 2
  /\ \E d \in detached : d < ringBuffer

(* ------------------------------------------------------------------ *)
(* Sensitivity                                                         *)
(* ------------------------------------------------------------------ *)

\* C21: a predict whose request has sensitivity 1.0 caches and pools the model's
\* rows as they are; with any other sensitivity, 0 included, it caches and pools
\* the rows transformed with the bias (s - 1.0) * 5.0
C21_TransformUnlessOne ==
  [][\A h \in handlers :
       PredictCompletes(h)
         => /\ lastPredictionList' =
                 (IF h.sensitivity # 10 THEN applySensitivity(h.res, h.sensitivity)
                  ELSE h.res)
            /\ lastMeans' # lastMeans => lastMeans' = FramePool(lastPredictionList')]_vars

(* ------------------------------------------------------------------ *)
(* A start that fails                                                  *)
(* ------------------------------------------------------------------ *)

\* the step ends the start st at its getUserMedia without a stream
MicFails(st) ==
  /\ st.pc = "getUserMedia"
  /\ \A other \in starts' : other.id # st.id
  /\ currentStream' # Some(st.id)

\* C22: when getUserMedia fails the start is over: the main thread is not
\* listening and holds no stream, node or context, the step has set up no ring,
\* scheduled no tick and posted nothing,
\* and no predict request is posted for as long as the main thread is not listening
C22_MicFailureAborts ==
  [][/\ \A st \in starts :
          MicFails(st)
            => /\ ~isListening'
               /\ currentStream' = Null /\ workletNode' = Null /\ audioContext' = Null
               /\ UNCHANGED <<mailbox, timers, nPredict, ringVars, inputGain>>
     /\ ~isListening => nPredict' = nPredict]_vars

\* the one start there was has failed at getUserMedia
C22_OnlyStartFailed ==
  /\ nClick = 1
  /\ starts = {}
  /\ ~isListening
  /\ circularBuffer = Null

(* ------------------------------------------------------------------ *)
(* Without a geo model                                                 *)
(* ------------------------------------------------------------------ *)

\* the step is the worker's onmessage taking a message of this kind
Receives(kind) ==
  /\ mailbox # <<>>
  /\ Head(mailbox).message = kind
  /\ mailbox' = Tail(mailbox)

\* C23: without a geo model init still ends with 'loaded', every geoscore is 1
\* whatever has been requested, and an area-scores request starts no scoring,
\* changes nothing in the worker and emits nothing
C23_NoGeoModelNeutral ==
  [][/\ (initPc # "done" /\ initPc' = "done")
          => (Len(Emitted) = 1 /\ Emitted[1].message = "loaded")
     /\ ~areaModel'
          => /\ \A i \in DOMAIN birds' : birds'[i].geoscore = 1
             /\ \A h \in handlers' : h.kind # "area"
     /\ (Receives("area-scores") /\ ~areaModel)
          => UNCHANGED <<workerGlobals, params, initPc, loadFraction, handlers, toMain>>]_vars

\* the geo model failed to load, init is through, and the worker has taken a
\* predict and an area-scores request since
C23_FixWithoutGeoModel ==
  /\ initPc = "done"
  /\ ~areaModel
  /\ birds # <<>>
  /\ lastPredictionList # Null
  /\ nArea >= 1
  /\ mailbox = <<>>
  /\ handlers = {}

(* ------------------------------------------------------------------ *)
(* Reloading the labels                                                *)
(* ------------------------------------------------------------------ *)

\* the step completes the loadLabels call h: the table is swapped
LabelsCompletes(h) == h.kind = "labels" /\ h.pc = "fetchLang" /\ h \notin handlers'

\* C24: a label load swaps in a whole new table, one entry per line of the label
\* file; with as many classes as before every class keeps its geoscore, otherwise
\* every geoscore is 1
C24_ReloadKeepsGeoscores ==
  [][\A h \in handlers :
       LabelsCompletes(h)
         => /\ Len(birds') = Len(LabelFile)
            /\ \A i \in DOMAIN birds' :
                 /\ birds'[i].scientificName = LabelFile[i]
                 /\ birds'[i].commonNameI18n \in {<<LabelFile[i], h.lang>>,
                                                  <<LabelFile[i], "en_us">>}
                 /\ birds'[i].geoscore =
                      (IF Len(birds') = Len(birds) THEN birds[i].geoscore ELSE 1)]_vars

\* the last thing the worker did was a reload, over geoscores that an area-scores
\* request had set
C24_ReloadedOverGeoscores ==
  /\ toMain # <<>>
  /\ toMain[Len(toMain)].message = "labels_loaded"
  /\ \E i \in DOMAIN birds : birds[i].geoscore # 1
  /\ \A h \in handlers : h.kind # "area"

(* ------------------------------------------------------------------ *)
(* Gain and clipping                                                   *)
(* ------------------------------------------------------------------ *)

\* the ring sample that element i of a window taken now is read from
RingSample(i) ==
  circularBuffer[((circularWriteIndex + i - 1) % Len(circularBuffer)) + 1]

IsLevel(mean, level) == mean[1] = Exp5(level) * mean[2]

InitMessages == {"load_model", "warmup", "load_geomodel", "load_labels", "loaded"}

\* the initialisation messages the step posts, in order
InitEmitted == SelectSeq(Emitted, LAMBDA m : m.message \in InitMessages)

\* the names and progress values of a sequence of messages
Named(ms) == [i \in DOMAIN ms |-> <<ms[i].message, ms[i].id>>]

\* C28: a worker posts its initialisation messages in the order load_model
\* (progress at most 70 and never less than the last one reported), warmup (70),
\* load_geomodel (90), load_labels (95), loaded: each stage of init() posts only its
\* own messages, the stages only advance, 'loaded' is posted by the one step that
\* ends init(), and nothing is posted before the first stage or after the last;
\* the main thread sets workerReady only when it takes 'loaded' from the worker,
\* and a recording starts only when workerReady is set.
C28_InitOrder ==
  [][/\ InitEmitted # <<>> =>
          CASE initPc = "loadModel" ->
                 \/ /\ initPc' = "loadModel"
                    /\ Len(InitEmitted) = 1
                    /\ InitEmitted[1].message = "load_model"
                    /\ InitEmitted[1].id <= 70
                    /\ InitEmitted[1].id >= LoadProgress(loadFraction)
                    /\ loadFraction' > loadFraction
                 \/ /\ initPc' = "loadGeo"
                    /\ Named(InitEmitted) = <<(<<"warmup", 70>>), (<<"load_geomodel", 90>>)>>
            [] initPc = "loadGeo" ->
                 /\ initPc' = "labels"
                 /\ Named(InitEmitted) = <<(<<"load_labels", 95>>)>>
            [] initPc = "labels" ->
                 /\ initPc' = "done"
                 /\ Len(InitEmitted) = 1 /\ InitEmitted[1].message = "loaded"
            [] OTHER -> FALSE
     /\ initPc' # initPc =>
          <<initPc, initPc'>> \in {<<"setBackend", "loadModel">>, <<"loadModel", "loadGeo">>,
                                   <<"loadGeo", "labels">>, <<"labels", "done">>}
     /\ (workerReady' /\ ~workerReady) =>
          /\ toMain # <<>> /\ Head(toMain).message = "loaded"
          /\ toMain' = Tail(toMain)
     /\ (isListening' /\ ~isListening) => workerReady]_vars

\* 'loaded' has been received after the model load reported its progress
C28_ReadyAfterProgress ==
  workerReady /\ loadFraction = ProgressSteps /\ initPc = "done" /\ toMain = <<>>

(* ------------------------------------------------------------------ *)
(* C29                                                                 *)
(* ------------------------------------------------------------------ *)

\* the step posts an area-scores request for the fix loc as its last message
PostsAreaFor(loc) ==
  /\ Len(mailbox') > 0
  /\ mailbox'[Len(mailbox')].message = "area-scores"
  /\ mailbox'[Len(mailbox')].loc = loc
  /\ nArea' = nArea + 1

\* an area-scores request for the fix loc waits in the mailbox of a loaded worker
AreaPending(loc) ==
  /\ workerReady /\ initPc = "done"
  /\ \E k \in DOMAIN mailbox : mailbox[k].message = "area-scores" /\ mailbox[k].loc = loc

\* every class of the label table carries the geo score of the fix loc
GeoscoresOf(loc) ==
  /\ Len(birds) = NumClasses
  /\ \A i \in 1..NumClasses : birds[i].geoscore = AreaScores(loc)[i]

\* C29: a fix is not lost to the order of start-up.  The step in which the main
\* thread takes 'loaded' while it holds a fix posts an area-scores request with
\* that fix, and so does every fix that arrives once the worker is ready; and,
\* the worker and the delivery of messages being fair, a request that waits for
\* a loaded worker with a geo model leads to the label table carrying the geo
\* scores of its fix.
C29_FixReachesLoadedWorker ==
  /\ [][/\ (workerReady' /\ ~workerReady /\ geolocation # Null)
            => PostsAreaFor(Val(geolocation))
        /\ (workerReady /\ nFix' # nFix)
            => /\ geolocation' # Null
               /\ PostsAreaFor(Val(geolocation'))]_vars
  /\ \A loc \in Locations : (AreaPending(loc) /\ areaModel) ~> GeoscoresOf(loc)

\* a fix that came before 'loaded' was sent again on 'loaded' and has reached the
\* label table
C29_EarlyFixApplied ==
  /\ nFix = 1 /\ nArea = 2 /\ workerReady /\ areaModel
  /\ geolocation # Null /\ GeoscoresOf(Val(geolocation))
  /\ mailbox = <<>> /\ handlers = {}

(* ------------------------------------------------------------------ *)
(* C30                                                                 *)
(* ------------------------------------------------------------------ *)

\* the day of January of the last Monday on or before January 1 (1 is January 1,
\* 0 is December 31), January 1 falling on weekday getDay
MondayOnOrBefore(getDay) == 1 - ((getDay + 6) % 7)

\* C30: whatever the weekday of January 1, the start of year a handleAreaScores
\* call aligns to is the last Monday on or before January 1, never a later day,
\* and its week is the number of days since that Monday, over 7, rounded, plus
\* 1, with no clamping.
C30_WeekFromMondayBefore ==
  \A h \in handlers :
    h.kind = "area" =>
      /\ h.startOfYear = MondayOnOrBefore(clock.getDay)
      /\ h.startOfYear <= 1
      /\ h.week = Round(clock.now - 2 * (MondayOnOrBefore(clock.getDay) - 1), 14) + 1

(* ------------------------------------------------------------------ *)
(* C31                                                                 *)
(* ------------------------------------------------------------------ *)

\* the samples fed to the processor up to its last full chunk
FullChunksOf(stream) == SubSeq(stream, 1, Len(stream) - (Len(stream) % bufferSize))

\* C31: the worklet processor loses, repeats and reorders nothing: the chunks it
\* has posted, those the ring writer has taken followed by those still on the port,
\* are chunks of bufferSize samples whose concatenation is the input stream up to
\* its last full chunk, whatever the lengths of the render quanta; and between two
\* calls of process() the index is in [0, bufferSize).
C31_ChunksAreTheStream ==
  /\ _index \in 0..(bufferSize - 1)
  /\ _index = Len(fed) % bufferSize
  /\ \A k \in DOMAIN port : Len(port[k]) = bufferSize
  /\ written \o Flatten(port) = FullChunksOf(fed)

\* a chunk has reached the ring and the processor holds part of the next
C31_SecondChunkUnderWay ==
  /\ Len(written) >= bufferSize /\ _index > 0
  /\ \E i, j \in DOMAIN fed : fed[i] # fed[j]

(* ------------------------------------------------------------------ *)
(* C32                                                                 *)
(* ------------------------------------------------------------------ *)

\* C32: at most one chain of inference timers is live, whatever the starts and
\* stops: never are two setTimeout(tick) callbacks pending at once.
C32_OneTimerChain == timers <= 1

(* ------------------------------------------------------------------ *)
(* C33                                                                 *)
(* ------------------------------------------------------------------ *)

\* C33: while the main thread is not listening and no startListening call is
\* suspended, it holds no microphone stream, no audio context and no worklet node.
C33_IdleHoldsNothing ==
  (~isListening /\ starts = {}) =>
    /\ currentStream = Null
    /\ audioContext = Null
    /\ workletNode = Null

(* ------------------------------------------------------------------ *)
(* C34                                                                 *)
(* ------------------------------------------------------------------ *)

\* C34: capture is never active while the worker is not ready, and workerReady,
\* once set, is never cleared: a change of the label language with a ready worker
\* posts load_labels to that worker and starts no new one.
C34_ListeningImpliesReady ==
  [][/\ isListening' => workerReady'
     /\ workerReady => workerReady'
     /\ (workerReady /\ nLang' # nLang)
          => /\ mailbox' = Append(mailbox, [message |-> "load_labels", id |-> nLang',
                                            lang |-> currentLabelLang'])
             /\ UNCHANGED <<workerGlobals, initPc, handlers, toMain>>]_vars

\* the label language was changed during capture, after a predict request
C34_LangChangedWhileListening ==
  /\ isListening /\ workerReady
  /\ \E j, k \in DOMAIN mailbox :
       j < k /\ mailbox[j].message = "predict" /\ mailbox[k].message = "load_labels"

(* ------------------------------------------------------------------ *)
(* C35                                                                 *)
(* ------------------------------------------------------------------ *)

\* the main thread takes a 'pooled' message that handler `by` of the worker posted
TakesPooledOf(by) ==
  /\ toMain # <<>>
  /\ Head(toMain).message = "pooled" /\ Head(toMain).by = by
  /\ toMain' = Tail(toMain)

\* C35: every entry of the temporal pool is the response to a predict request of
\* its own: the 'pooled' message replayed after area-scores adds no entry to the
\* pool and evicts none.
C35_ReplayLeavesPool ==
  [][TakesPooledOf("area-scores") => recentInferenceSets' = recentInferenceSets]_vars

(* ------------------------------------------------------------------ *)
(* C36                                                                 *)
(* ------------------------------------------------------------------ *)

\* the retained cycles that report the class with this index, oldest first
CyclesWith(index) ==
  SelectSeq(recentInferenceSets,
            LAMBDA set : \E k \in DOMAIN set : set[k].index = index)

\* what the cycle `set` reports for the class with this index
ReportOf(set, index) ==
  set[CHOOSE k \in DOMAIN set : set[k].index = index]

\* C36: every detection the temporal pool has put out carries the geoscore and
\* the names that the most recent retained cycle with that class reports.
C36_NewestCycleGivesGeoscore ==
  \A n \in DOMAIN latestDetections :
    LET d == latestDetections[n]
        cycles == CyclesWith(d.index)
    IN cycles # <<>> =>
         LET newest == ReportOf(cycles[Len(cycles)], d.index)
         IN /\ d.geoscore = newest.geoscore
            /\ d.scientificName = newest.scientificName
            /\ d.commonNameI18n = newest.commonNameI18n

(* ------------------------------------------------------------------ *)
(* C37                                                                 *)
(* ------------------------------------------------------------------ *)

\* a ring's worth of samples: zeros, then the first k samples written, each passed
\* through f
PaddedWith(k, f(_)) ==
  [i \in 1..RingCapacity |->
     IF i <= RingCapacity - k THEN 0 ELSE f(written[i - (RingCapacity - k)])]

AsWritten(x) == x

\* C37 as stated: a snapshot taken when k < capacity samples had been written to
\* the new ring is capacity - k zeros followed by the k samples as they were
\* written, so its last element is the sample written last.
C37_ZerosThenWritten ==
  (windowed # Null /\ Val(windowed).at < RingCapacity)
    => /\ Val(windowed).window = PaddedWith(Val(windowed).at, AsWritten)
       /\ Val(windowed).at >= 1
            => Val(windowed).window[RingCapacity] = written[Val(windowed).at]

\* C37 amended: a snapshot taken when k < capacity samples had been written to
\* the new ring is capacity - k zeros followed by the k written samples in order,
\* each clamped to [-1, 1]; for k >= 1 its last element is the sample written
\* last, clamped.
C37_ZerosThenClamped ==
  (windowed # Null /\ Val(windowed).at < RingCapacity)
    => /\ Val(windowed).window = PaddedWith(Val(windowed).at, Clamp)
       /\ Val(windowed).at >= 1
            => Val(windowed).window[RingCapacity] = Clamp(written[Val(windowed).at])

\* a snapshot of a ring that is partly filled, a sample beyond full scale in it
C37_PartlyFilledAndClipped ==
  /\ windowed # Null
  /\ Val(windowed).at \in 2..(RingCapacity - 1)
  /\ \E i \in 1..Val(windowed).at : written[i] \notin -4..4
  /\ \E i, j \in 1..Val(windowed).at : written[i] # written[j]

(* ------------------------------------------------------------------ *)
(* C38                                                                 *)
(* ------------------------------------------------------------------ *)

\* C38: for an input that is not empty, whatever the overlap, every frame starts
\* inside the input and copies at least one sample of it, and the frames' source
\* ranges leave no sample out: the first begins at 0, each begins no later than
\* the one before it ends, and the last ends at the end of the input.
C38_FramesCoverInput ==
  \A h \in Framing :
    h.total > 0 =>
      LET copies == h.framed.copies
      IN /\ \A f \in 1..h.numFrames :
              /\ (f - 1) * h.hopSamples < h.total
              /\ copies[f].from = (f - 1) * h.hopSamples
              /\ copies[f].to > copies[f].from
         /\ copies[1].from = 0
         /\ \A f \in 2..h.numFrames : copies[f].from <= copies[f - 1].to
         /\ copies[h.numFrames].to = h.total

\* a handler has framed an input of more than a window whose last frame is one
\* sample long, another an input of one sample
C38_TailOfOneSample ==
  /\ \E h \in Framing :
       /\ h.numFrames >= 2
       /\ h.framed.copies[h.numFrames].to - h.framed.copies[h.numFrames].from = 1
  /\ \E h \in Framing : h.total = 1

(* ------------------------------------------------------------------ *)
(* C39                                                                 *)
(* ------------------------------------------------------------------ *)

\* the worker is loaded and has nothing left to do, and the main thread has taken
\* all it posted
Quiescent ==
  /\ initPc = "done" /\ workerReady
  /\ handlers = {} /\ mailbox = <<>> /\ toMain = <<>>

\* C39: a geo update is not lost to a label reload.  However the area-scores
\* handler of a fix and a load_labels handler interleave at their awaits, the step
\* in which the area-scores handler ends (and posts its answer) leaves the scores
\* of its fix in the label table, the step in which the load_labels handler ends
\* keeps the scores the table carries, and once the worker (with a geo model) has finished all of it the
\* table carries the scores of the one fix there was.
C39_GeoSurvivesReload ==
  /\ [][/\ \A h \in handlers :
              (AreaCompletes(h) /\ Emitted # <<>> /\ Len(birds) = NumClasses)
                => GeoscoresOf(h.loc)'
        /\ \A h \in handlers :
              (LabelsCompletes(h) /\ Emitted # <<>> /\ h.from = "msg"
                 /\ Len(birds) = NumClasses)
                => \A loc \in Locations : GeoscoresOf(loc) => GeoscoresOf(loc)']_vars
  /\ []((Quiescent /\ areaModel /\ nFix = 1) => GeoscoresOf(Val(geolocation)))

\* a fix has been applied and the labels reloaded by the same worker, in the
\* language chosen after its start
C39_FixAndReloadDone ==
  /\ Quiescent /\ areaModel /\ nFix = 1 /\ nLang = 1
  /\ params.lang # currentLabelLang
  /\ \A i \in 1..NumClasses : birds[i].commonNameI18n[2] = currentLabelLang
  /\ GeoscoresOf(Val(geolocation))

(* ------------------------------------------------------------------ *)
(* C40                                                                 *)
(* ------------------------------------------------------------------ *)

\* C40: the temporal pool carries no entry from one capture session over to the
\* next: in the step that starts a session, where whatever the pool holds was
\* pooled before that session, the pool is left empty.
C40_NewSessionEmptyPool ==
  [][(isListening' /\ ~isListening) => recentInferenceSets' = <<>>]_vars

====
